---- MODULE Spec2Model ----
(***************************************************************************)
(* Model of tg_translator.translator_service.TranslatorService: the        *)
(* direction heuristic of _translate_sync, the dictionary substitution,    *)
(* translate_message, and the transcription and synthesis entry points.    *)
(*                                                                         *)
(* Text is a sequence of Unicode code points.  A Python value that may be  *)
(* None is a record [tag, s]: Str(s) or None.  What a provider call does   *)
(* is an Outcome: a value, or Raise.                                       *)
(***************************************************************************)
EXTENDS Integers, Sequences, FiniteSets, TLC

VARIABLES
  last,           \* record of the translation call that has just returned
  pair,           \* two _translate_sync runs against one provider behaviour
  audio,          \* record of the audio call that has just returned
  silero_models,  \* self.silero_models: the model ids in the cache
  whisper_model,  \* self.whisper_model is not None
  handler,        \* record of the front-end handler that has just returned
  inflight,       \* the requests running now, each with its temp path
  issued,         \* the uuid4 values drawn so far
  tmp_dir,        \* the temp paths on disk
  loaders,        \* the pool workers inside a lazy model load, each with its position
  constructed,    \* how many times each model has been constructed
  tasks,          \* the state of each task submitted to the worker pool
  subst_run,      \* record of the last dictionary substitution
  dictionary,     \* the rows of table dictionary
  settings,       \* the rows of table settings, by chat_id
  exports,        \* the rows of table exports
  now,            \* the clock of the store, in hours
  db_last,        \* record of the store operation or command that has just returned
  variations_run, \* record of the last get_variations call
  clean,          \* the /clean run: its position in the loop and its counters
  chat_mode,      \* the mode stored for each chat, "" when none is stored
  transcriptions, \* the pending texts, by the key chat_id:message_id
  sent,           \* the placeholders the bot has sent; the index is the message id
  stopped         \* the chats whose last mode command was a /stop that succeeded

trVars == <<last, pair>>
auVars == <<audio, silero_models, whisper_model>>
svcVars == <<trVars, auVars>>
tmpVars == <<inflight, issued, tmp_dir>>
ldVars == <<loaders, constructed>>
poolVars == <<tasks>>
dictVars == <<subst_run>>
dbVars == <<dictionary, settings, exports, now, db_last>>
inflVars == <<variations_run>>
botVars == <<chat_mode, transcriptions, sent, stopped>>
chatVars == <<clean, botVars>>
extVars == <<dbVars, inflVars, chatVars>>
feVars == <<handler, tmpVars, ldVars, poolVars, dictVars, extVars>>
vars == <<svcVars, feVars>>

-----------------------------------------------------------------------------
(* Bounds of the model *)

MaxLen == 2          \* longest message text and provider result
MaxPairLen == 1      \* longest text in the two-run comparison
MaxTerms == 1        \* most dictionary rows get_terms returns
MaxRequests == 3     \* most requests running at once
MaxUuids == 4        \* most uuid4 values drawn in a run
MaxTasks == 6        \* most tasks submitted to the pool in a run
MaxHung == 1         \* most provider calls that hang forever
MaxDictLen == 5      \* longest text given to the substitution alone
MaxRows == 2         \* most rows in a dictionary given to the substitution alone
MaxFaultLen == 3     \* longest text given to a substitution in which a term raises
MaxWordLen == 3      \* longest word given to get_variations
MaxStored == 3       \* most rows in table dictionary
MaxHours == 48       \* last hour of the store's clock
TickHours == 12      \* hours between two readings of the store's clock
MaxDbRows == 1       \* most rows in table dictionary when every store method runs

\* ThreadPoolExecutor(max_workers=4)
max_workers == 4

\* datetime('now', '-1 day'), in hours
export_ttl == 24

-----------------------------------------------------------------------------
(* Values *)

Str(s) == [tag |-> "str", s |-> s]
None == [tag |-> "none", s |-> <<>>]
Raise == [tag |-> "raise", s |-> <<>>]

\* Python truthiness of an Optional[str]
Truthy(v) == v.tag = "str" /\ v.s # <<>>

\* code points: 32 space, 65 'A', 97 'a', 1103 U+044F 'ya', 1111 U+0457 'yi'
Alphabet == {32, 65, 97, 1103, 1111}

SeqsUpTo(S, n) == UNION {[1..k -> S] : k \in 0..n}

Texts == SeqsUpTo(Alphabet, MaxLen)
PairTexts == SeqsUpTo({97, 1103}, MaxPairLen)

\* language codes in alphabetical order
LangList == <<"en", "ru", "uk">>
Langs == {LangList[i] : i \in DOMAIN LangList}

-----------------------------------------------------------------------------
(* str.lower, str.strip, the regular expressions *)

\* str.lower on one code point: ASCII, U+0410..U+042F, U+0400..U+040F
LowerChar(c) ==
  IF c \in 65..90 THEN c + 32
  ELSE IF c \in 1040..1071 THEN c + 32
  ELSE IF c \in 1024..1039 THEN c + 80
  ELSE c

Lower(s) == [i \in DOMAIN s |-> LowerChar(s[i])]

IsSpace(c) == c \in {9, 10, 11, 12, 13, 32}

RECURSIVE LStrip(_)
LStrip(s) == IF s # <<>> /\ IsSpace(Head(s)) THEN LStrip(Tail(s)) ELSE s

RECURSIVE RStrip(_)
RStrip(s) ==
  IF s # <<>> /\ IsSpace(s[Len(s)]) THEN RStrip(SubSeq(s, 1, Len(s) - 1)) ELSE s

Strip(s) == RStrip(LStrip(s))

\* one code point against the class [а-яА-ЯёЁ]
CyrillicClass(c) == c \in 1072..1103 \/ c \in 1040..1071 \/ c = 1105 \/ c = 1025

\* re.search(r"[а-яА-ЯёЁ]", s)
HasCyrillic(s) == \E i \in DOMAIN s : CyrillicClass(s[i])

\* \w of a Unicode pattern, on the code points of the model's ranges
IsWordChar(c) ==
  \/ c \in 48..57
  \/ c \in 65..90
  \/ c = 95
  \/ c \in 97..122
  \/ c \in 1024..1153
  \/ c \in 1162..1279

cyrillic_langs == {"ru", "uk", "be", "sr", "bg", "mk", "kk", "ky", "tg"}

-----------------------------------------------------------------------------
(* _translate_sync *)

Call(fn, text, target, out) ==
  [fn |-> fn, text |-> text, target |-> target, out |-> out]

\* original_text if original_text else text
SampleTextMutant(text, original) == text
SampleText(text, original) == IF Truthy(original) THEN original.s ELSE text

\* res_prim and res_prim.lower().strip() == sample_text.lower().strip()
ProbeSaysPrimaryMutant(res_prim, sample_text) ==
  Truthy(res_prim) /\ res_prim.s = sample_text
ProbeSaysPrimary(res_prim, sample_text) ==
  Truthy(res_prim) /\ Strip(Lower(res_prim.s)) = Strip(Lower(sample_text))

\* primary_lang in cyrillic_langs and bool(re.search(r"[а-яА-ЯёЁ]", sample_text))
Shortcut(primary, sample_text) ==
  primary \in cyrillic_langs /\ HasCyrillic(sample_text)

\* target_lang == primary_lang and text == sample_text
ReturnsProbeMutant(target_lang, primary, text, sample_text) ==
  target_lang # primary /\ text = sample_text
ReturnsProbe(target_lang, primary, text, sample_text) ==
  target_lang = primary /\ text = sample_text

\* the body of the try block: probeOut and finalOut are what the provider does
\* on the probe call and on the final call, if the code makes them.  exc: an
\* exception left the block (a provider raised, or res_prim was read unbound).
TranslateSyncBody(text, primary, secondary, original, probeOut, finalOut) ==
  LET sample_text == SampleText(text, original)
      shortcut == Shortcut(primary, sample_text)
      probe == Call("probe", sample_text, primary, probeOut)
  IN  IF ~shortcut /\ probeOut = Raise
      THEN [exc |-> TRUE, ret |-> None, calls |-> <<probe>>, target |-> "",
            sample |-> sample_text, shortcut |-> shortcut]
      ELSE
        LET is_source_primary ==
              IF shortcut THEN TRUE ELSE ProbeSaysPrimary(probeOut, sample_text)
            target_lang == IF is_source_primary THEN secondary ELSE primary
            calls1 == IF shortcut THEN <<>> ELSE <<probe>>
            final == Call("final", text, target_lang, finalOut)
        IN  IF ReturnsProbe(target_lang, primary, text, sample_text)
            THEN \* return res_prim: unbound when the probe was skipped
                 [exc |-> shortcut,
                  ret |-> IF shortcut THEN None ELSE probeOut,
                  calls |-> calls1, target |-> target_lang,
                  sample |-> sample_text, shortcut |-> shortcut]
            ELSE [exc |-> finalOut = Raise,
                  ret |-> IF finalOut = Raise THEN None ELSE finalOut,
                  calls |-> Append(calls1, final), target |-> target_lang,
                  sample |-> sample_text, shortcut |-> shortcut]

\* except Exception: log, return None
TranslateSyncMutant(text, primary, secondary, original, probeOut, finalOut) ==
  TranslateSyncBody(text, primary, secondary, original, probeOut, finalOut)
TranslateSync(text, primary, secondary, original, probeOut, finalOut) ==
  LET b == TranslateSyncBody(text, primary, secondary, original, probeOut, finalOut)
  IN  [b EXCEPT !.ret = IF b.exc THEN None ELSE b.ret, !.exc = FALSE]

-----------------------------------------------------------------------------
(* _apply_custom_dictionary *)

\* \b at the gap before position i (1-based) of text
Boundary(text, i) ==
  LET before == i - 1 \in DOMAIN text /\ IsWordChar(text[i - 1])
      after == i \in DOMAIN text /\ IsWordChar(text[i])
  IN  before # after

\* \b source \b matches at position i, re.IGNORECASE
MatchAt(text, i, source) ==
  /\ i + Len(source) - 1 <= Len(text)
  /\ \A k \in DOMAIN source : LowerChar(text[i + k - 1]) = LowerChar(source[k])
  /\ Boundary(text, i)
  /\ Boundary(text, i + Len(source))

\* pattern.sub(target, text) from position i on: leftmost, non-overlapping
RECURSIVE SubFrom(_, _, _, _)
SubFrom(text, source, target, i) ==
  IF i > Len(text) THEN <<>>
  ELSE IF MatchAt(text, i, source)
       THEN target \o SubFrom(text, source, target, i + Len(source))
       ELSE <<text[i]>> \o SubFrom(text, source, target, i + 1)

PatternSub(text, source, target) == SubFrom(text, source, target, 1)

\* terms.sort(key=lambda x: len(x[0]), reverse=True): stable
SortByLenMutant(terms, n) == terms
RECURSIVE SortByLen(_, _)
SortByLen(terms, n) ==
  IF n = 0 THEN <<>>
  ELSE SelectSeq(terms, LAMBDA t : Len(t[1]) = n) \o SortByLen(terms, n - 1)

MaxSourceLen(terms) ==
  IF terms = <<>> THEN 0
  ELSE CHOOSE n \in {Len(terms[i][1]) : i \in DOMAIN terms} :
         \A i \in DOMAIN terms : Len(terms[i][1]) <= n

RECURSIVE ApplyTerms(_, _)
ApplyTerms(text, terms) ==
  IF terms = <<>> THEN text
  ELSE ApplyTerms(PatternSub(text, Head(terms)[1], Head(terms)[2]), Tail(terms))

\* hasDb: self.db is set; chat_id 0 stands for None; terms: what get_terms
\* returned.  reads: the store reads made.
ApplyCustomDictionaryMutant(text, hasDb, chat_id, lang_pair, terms) ==
  [text |-> text,
   reads |-> IF ~hasDb \/ chat_id = 0 THEN <<>> ELSE <<<<"get_terms", lang_pair>>>>]
ApplyCustomDictionary(text, hasDb, chat_id, lang_pair, terms) ==
  IF ~hasDb \/ chat_id = 0
  THEN [text |-> text, reads |-> <<>>]
  ELSE [text |-> ApplyTerms(text, SortByLen(terms, MaxSourceLen(terms))),
        reads |-> <<<<"get_terms", lang_pair>>>>]

\* the loop of lines 144-151 when re.compile or pattern.sub raises for the
\* rows whose source is in raising: the except clause logs and the loop goes on
ApplyTermsGuardedMutant(text, terms, raising) ==
  LET bad == {i \in DOMAIN terms : terms[i][1] \in raising}
      first == IF bad = {} THEN Len(terms) + 1
               ELSE CHOOSE i \in bad : \A j \in bad : i <= j
  IN  [text |-> ApplyTerms(text, SubSeq(terms, 1, first - 1)), escaped |-> bad # {}]
RECURSIVE ApplyTermsGuarded(_, _, _)
ApplyTermsGuarded(text, terms, raising) ==
  IF terms = <<>> THEN [text |-> text, escaped |-> FALSE]
  ELSE IF Head(terms)[1] \in raising
       THEN ApplyTermsGuarded(text, Tail(terms), raising)
       ELSE ApplyTermsGuarded(PatternSub(text, Head(terms)[1], Head(terms)[2]),
                              Tail(terms), raising)

\* a run of the substitution: the text, the rows as get_terms returned them,
\* the sources whose pattern raised, the text returned, and whether an
\* exception left the method
IdleRun ==
  [text |-> <<>>, terms |-> <<>>, out |-> <<>>, ran |-> FALSE, raising |-> {},
   escaped |-> FALSE]

\* texts and stored rows for the substitution alone: sources of one word and
\* of two words, targets 'X' and 'Y'
DictTexts == SeqsUpTo({32, 97, 1103}, MaxDictLen)
DictSources == {<<97>>, <<1103>>, <<97, 97>>, <<97, 32, 1103>>, <<97, 32, 97>>}
DictTargets == {<<88>>, <<89>>}
DictRows ==
  {ts \in SeqsUpTo(DictSources \X DictTargets, MaxRows) :
     \A i, j \in DOMAIN ts : i # j => ts[i][1] # ts[j][1]}
FaultTexts == SeqsUpTo({32, 97, 1103}, MaxFaultLen)

-----------------------------------------------------------------------------
(* Database: the tables and the record of one call *)

\* lang.lower() on the language codes of the model
LowerCode(lang) == IF lang = "RU" THEN "ru" ELSE IF lang = "EN" THEN "en" ELSE lang

\* a row of table dictionary: <<chat_id, lang_pair, source_term, target_term>>;
\* a lang_pair "a-b" is the pair of its two codes
RowKey(row) == <<row[1], row[2], row[3]>>

\* lang_pair.strip().lower()
NormPair(lang_pair) == <<LowerCode(lang_pair[1]), LowerCode(lang_pair[2])>>

\* source.strip().lower()
SourceLowerMutant(source) == Strip(source)
SourceLower(source) == Lower(Strip(source))

\* INSERT OR REPLACE under PRIMARY KEY (chat_id, lang_pair, source_term)
InsertOrReplaceMutant(rows, row) == rows \cup {row}
InsertOrReplace(rows, row) == {r \in rows : RowKey(r) # RowKey(row)} \cup {row}

\* add_term: the rows afterwards and the bool returned.  fails: a statement
\* or the commit raises; the connection context rolls the transaction back.
AddTermResult(rows, chat_id, source, target, lang_pair, fails) ==
  LET source_lower == SourceLower(source)
      target_clean == Strip(target)
  IN  IF source_lower = <<>> \/ target_clean = <<>> THEN [rows |-> rows, ok |-> FALSE]
      ELSE IF fails THEN [rows |-> rows, ok |-> FALSE]
      ELSE [rows |-> InsertOrReplace(rows, <<chat_id, NormPair(lang_pair), source_lower,
                                             target_clean>>),
            ok |-> TRUE]

\* remove_term: DELETE ... WHERE chat_id = ? AND source_term = ? AND lang_pair = ?
RemoveTermResultMutant(rows, chat_id, source, lang_pair, fails) ==
  LET hit == {r \in rows : r[1] = chat_id /\ r[2] = NormPair(lang_pair)}
  IN  IF fails THEN [rows |-> rows, ok |-> FALSE]
      ELSE [rows |-> rows \ hit, ok |-> hit # {}]
RemoveTermResult(rows, chat_id, source, lang_pair, fails) ==
  LET key == <<chat_id, NormPair(lang_pair), SourceLower(source)>>
      hit == {r \in rows : RowKey(r) = key}
  IN  IF fails THEN [rows |-> rows, ok |-> FALSE]
      ELSE [rows |-> rows \ hit, ok |-> hit # {}]

\* get_terms: the (source_term, target_term) of the rows of the chat and pair
GetTermsResult(rows, chat_id, lang_pair, fails) ==
  IF fails THEN {}
  ELSE {<<r[3], r[4]>> : r \in {q \in rows : q[1] = chat_id /\ q[2] = NormPair(lang_pair)}}

\* the record of one call: its arguments, the bool or the rows it returned,
\* whether the store failed inside it, whether it replaced an existing row
\* for a command or an endpoint also the two language codes it started from,
\* the number of rows it wrote and what it answered
IdleDb ==
  [op |-> "idle", chat |-> 0, lang_pair |-> <<>>, source |-> <<>>, target |-> <<>>,
   ok |-> FALSE, rows |-> {}, failed |-> FALSE, replaced |-> FALSE,
   l1 |-> "", l2 |-> "", count |-> 0, reply |-> "",
   code |-> <<>>, ret |-> None, purged |-> {}]

\* str.upper on one code point: ASCII and U+0430..U+044F
UpperChar(c) ==
  IF c \in 97..122 THEN c - 32
  ELSE IF c \in 1072..1103 THEN c - 32
  ELSE c

Upper(s) == [i \in DOMAIN s |-> UpperChar(s[i])]

\* "DICT-"
CodePrefix == <<68, 73, 67, 84, 45>>

\* f"DICT-{uuid.uuid4().hex[:6].upper()}": hex is the six digits drawn
ExportCode(hex) == CodePrefix \o Upper(hex)

\* a row of table exports
ExportRow(code, data, created_at) == [code |-> code, data |-> data, created_at |-> created_at]

\* create_export: INSERT INTO exports under PRIMARY KEY code; created_at
\* defaults to CURRENT_TIMESTAMP.  The Optional[str] returned is the code.
CreateExportResult(rows, data, hex, clock, fails) ==
  LET code == ExportCode(hex)
  IN  IF fails \/ \E r \in rows : r.code = code
      THEN [rows |-> rows, ret |-> None]
      ELSE [rows |-> rows \cup {ExportRow(code, data, clock)}, ret |-> Str(code)]

\* DELETE FROM exports WHERE created_at < datetime('now', '-1 day')
Expired(rows, clock) == {r \in rows : r.created_at < clock - export_ttl}

\* get_export: purge, then SELECT data FROM exports WHERE code = code.upper()
LookupCodeMutant(code) == code
LookupCode(code) == Upper(code)

GetExportResult(rows, code, clock, fails) ==
  LET kept == rows \ Expired(rows, clock)
      hit == {r \in kept : r.code = LookupCode(code)}
  IN  IF fails THEN [rows |-> rows, ret |-> None, purged |-> {}]
      ELSE [rows |-> kept, purged |-> Expired(rows, clock),
            ret |-> IF hit = {} THEN None ELSE Str((CHOOSE r \in hit : TRUE).data)]

\* the digits uuid4 gives: "a1b2c3" and "000000"; the exported data
HexDraws == {<<97, 49, 98, 50, 99, 51>>, <<48, 48, 48, 48, 48, 48>>}
ExportData == {<<88>>, <<89>>}

\* the codes asked for: each code as issued, in lower case, with its prefix
\* in lower case, and a code never issued
AskedCodes ==
  UNION {{ExportCode(h), Lower(ExportCode(h)), Lower(CodePrefix) \o Upper(h)} : h \in HexDraws}
    \cup {CodePrefix \o <<70, 70, 70, 70, 70, 70>>}

\* arguments of the store calls: sources '', ' ', 'A', ' a', 'я'; targets
\* ' ', 'X', 'x '; lang_pair "en-ru", "EN-RU", "en-uk"
RawSources == {<<>>, <<32>>, <<65>>, <<32, 97>>, <<1103>>}
RawTargets == {<<32>>, <<88>>, <<120, 32>>}
RawPairs == {<<"en", "ru">>, <<"EN", "RU">>, <<"en", "uk">>}

-----------------------------------------------------------------------------
(* HeuristicInflector.get_variations *)

\* a Set[str] returned, or the exception that left the function
Variations(v) == [tag |-> "set", v |-> v]
RaiseIndexError == [tag |-> "raise", v |-> {}]

\* the code points of "бвгджзклмнпрстфхцчшщ"
Consonants == (1073..1076) \cup (1078..1079) \cup (1082..1085) \cup (1087..1090) \cup (1092..1097)

\* base + each of the suffixes
Forms(base, suffixes) == {base \o suffixes[i] : i \in DOMAIN suffixes}

\* the if / elif chain of lines 31-113 on a word that has a last character
Inflected(word) ==
  LET final == word[Len(word)]
      base == SubSeq(word, 1, Len(word) - 1)
  IN  IF LowerChar(final) \in Consonants
      THEN Forms(word, <<<<1072>>, <<1091>>, <<1086, 1084>>, <<1077>>>>)
      ELSE IF final \in {1081, 1049}
      THEN Forms(base, <<<<1103>>, <<1102>>, <<1077, 1084>>, <<1077>>, <<1080>>>>)
      ELSE IF final \in {1072, 1040}
      THEN Forms(base, <<<<1099>>, <<1077>>, <<1091>>, <<1086, 1081>>>>)
      ELSE IF final \in {1103, 1071}
      THEN IF Len(word) > 2 /\ LowerChar(word[Len(word) - 1]) = 1080
           THEN Forms(base, <<<<1080>>, <<1102>>, <<1077, 1081>>>>)
           ELSE Forms(base, <<<<1080>>, <<1077>>, <<1102>>, <<1077, 1081>>, <<1105, 1081>>>>)
      ELSE IF final \in {1100, 1068}
      THEN Forms(base, <<<<1103>>, <<1102>>, <<1077, 1084>>, <<1077>>>>)
             \cup Forms(base, <<<<1080>>>>) \cup Forms(word, <<<<1102>>>>)
      ELSE {}

\* get_variations(word): line 19 tests the word as passed, line 22 strips it,
\* line 31 indexes the stripped word
GetVariations(word) ==
  IF word = <<>> THEN Variations({})
  ELSE LET stripped == Strip(word)
       IN  IF stripped = <<>> THEN RaiseIndexError
           ELSE Variations({stripped} \cup Inflected(stripped))

\* no get_variations call has been made
IdleVariations == [op |-> "idle", word |-> <<>>, ret |-> Variations({})]

\* space, 'a', and the Cyrillic letters а и й н ь я Я
WordAlphabet == {32, 97, 1072, 1080, 1081, 1085, 1100, 1103, 1071}
Words == SeqsUpTo(WordAlphabet, MaxWordLen)

-----------------------------------------------------------------------------
(* Database reads: a failure is caught inside the method *)

\* get_languages: row is the chat's settings row, <<>> when there is none
GetLanguages(row, fails) == IF fails \/ row = <<>> THEN <<"ru", "en">> ELSE row

\* get_terms: rows are the chat's rows for the lang_pair
GetTerms(rows, fails) == IF fails THEN <<>> ELSE rows

-----------------------------------------------------------------------------
(* translate_message *)

Rank(lang) == CHOOSE i \in DOMAIN LangList : LangList[i] = lang

\* langs = sorted([primary, secondary]); f"{langs[0]}-{langs[1]}"
LangPairMutant(primary, secondary) == <<primary, secondary>>
LangPair(primary, secondary) ==
  IF Rank(primary) <= Rank(secondary)
  THEN <<primary, secondary>> ELSE <<secondary, primary>>

-----------------------------------------------------------------------------
(* /dict commands and the HTTP dictionary endpoints *)

\* set_languages: INSERT OR REPLACE INTO settings
SetLanguagesResultMutant(rows, chat_id, primary, secondary, fails) ==
  [rows |-> [rows EXCEPT ![chat_id] = <<primary, secondary>>], ok |-> ~fails]
SetLanguagesResult(rows, chat_id, primary, secondary, fails) ==
  IF fails THEN [rows |-> rows, ok |-> FALSE]
  ELSE [rows |-> [rows EXCEPT ![chat_id] = <<primary, secondary>>], ok |-> TRUE]

\* for variant in variations: if db.add_term(...): count += 1.  failing: the
\* variants for which the store fails inside add_term
RECURSIVE AddEach(_, _, _, _, _, _)
AddEach(rows, chat_id, variations, target, lang_pair, failing) ==
  IF variations = {} THEN [rows |-> rows, count |-> 0]
  ELSE LET variant == CHOOSE v \in variations : TRUE
           r == AddTermResult(rows, chat_id, variant, target, lang_pair, variant \in failing)
           rest == AddEach(r.rows, chat_id, variations \ {variant}, target, lang_pair,
                           failing)
       IN  [rows |-> rest.rows, count |-> rest.count + (IF r.ok THEN 1 ELSE 0)]

\* variations = get_variations(source); if not variations: variations = {source}
VariationsOrSourceMutant(source) == Variations({source})
VariationsOrSource(source) ==
  LET got == GetVariations(source)
  IN  IF got.tag = "raise" THEN got
      ELSE IF got.v = {} THEN Variations({source}) ELSE got

\* dict_command, subcommand add, with the two codes get_languages returned
DictAddResult(rows, chat_id, l1, l2, source, target, failing) ==
  LET lang_pair == LangPair(l1, l2)
      variations == VariationsOrSource(source)
  IN  IF variations.tag = "raise"
      THEN [rows |-> rows, lang_pair |-> lang_pair, count |-> 0, reply |-> "raise"]
      ELSE LET r == AddEach(rows, chat_id, variations.v, target, lang_pair, failing)
           IN  [rows |-> r.rows, lang_pair |-> lang_pair, count |-> r.count,
                reply |-> IF r.count > 0 THEN "Added" ELSE "Failed to add term."]

\* POST /dict/add: the two codes come with the request
ApiAddTermResult(rows, chat_id, source_lang, target_lang, source, target, failing) ==
  LET r == DictAddResult(rows, chat_id, source_lang, target_lang, source, target, failing)
  IN  IF r.reply = "raise" THEN r ELSE [r EXCEPT !.reply = "ok"]

\* the chat of the commands; /lang set arguments; /dict add arguments: sources
\* '', ' ', 'a', ' Н', targets ' ' and 'X'
CmdChats == {1}
CmdConfigs == {<<"en", "ru">>, <<"ru", "en">>, <<"ru", "uk">>, <<"uk", "ru">>}
CmdSources == {<<>>, <<32>>, <<97>>, <<32, 1053>>}
CmdTargets == {<<32>>, <<88>>}

\* the store failing for no variant, for the literal term, or for every variant
FailChoices(source) ==
  LET variations == VariationsOrSource(source)
  IN  {{}, {Strip(source)}, IF variations.tag = "raise" THEN {} ELSE variations.v}

-----------------------------------------------------------------------------
(* /clean: clean_command *)

\* scan_limit = 200; the default and the largest target_count
scan_limit == 200
default_target == 10
max_target == 50

\* context.args[0] when there is one: a decimal number or a word int() rejects
NoArg == [tag |-> "none", n |-> 0]
IntArg(n) == [tag |-> "int", n |-> n]
BadArg == [tag |-> "bad", n |-> 0]

\* int(context.args[0]) if context.args else 10, capped at 50; 10 on ValueError
TargetCountMutant(arg) ==
  IF arg.tag = "int" THEN arg.n ELSE default_target
TargetCount(arg) ==
  IF arg.tag = "int"
  THEN IF arg.n > max_target THEN max_target ELSE arg.n
  ELSE default_target

\* the run of one /clean: pc is the position (idle, loop, done), i the loop
\* variable of range(1, scan_limit + 1), target_id the id of the last
\* delete_message call (0: none yet), attempts the number of such calls
IdleClean ==
  [pc |-> "idle", current_id |-> 0, target_count |-> 0, i |-> 0,
   deleted_count |-> 0, scanned_count |-> 0, target_id |-> 0, attempts |-> 0,
   cmd_deleted |-> FALSE]

\* the loop body runs once more: i is in the range, the target is not
\* reached and the id is at least 1
CleanGoesOn(c) ==
  /\ c.i <= scan_limit
  /\ c.deleted_count < c.target_count
  /\ c.current_id - c.i >= 1

\* not text or not text.strip()
IsBlankMutant(text) == text = <<>>
IsBlank(text) == text = <<>> \/ Strip(text) = <<>>

\* a call record.  reads: the store reads made; tasks: pool tasks submitted;
\* terms: the rows get_terms returned; faults: the collaborators that failed;
\* on_loop, in_pool: the steps run by the calling coroutine on the event-loop
\* thread and the steps run inside the pool task
Idle ==
  [op |-> "idle", text |-> <<>>, chat |-> 0, original |-> None, subst |-> <<>>,
   primary |-> "", secondary |-> "", calls |-> <<>>, ret |-> None,
   escaped |-> FALSE, target |-> "", sample |-> <<>>, shortcut |-> FALSE,
   reads |-> <<>>, tasks |-> 0, terms |-> <<>>, faults |-> {},
   on_loop |-> {}, in_pool |-> {}]

ProviderFaults(calls) == {calls[i].fn : i \in {j \in DOMAIN calls : calls[j].out = Raise}}

\* the call record of a _translate_sync run r on the given arguments
SyncRecord(op, text, original, primary, secondary, r) ==
  [Idle EXCEPT !.op = op, !.text = text, !.original = original, !.subst = text,
               !.primary = primary, !.secondary = secondary, !.calls = r.calls,
               !.ret = r.ret, !.escaped = r.exc, !.target = r.target,
               !.sample = r.sample, !.shortcut = r.shortcut,
               !.faults = ProviderFaults(r.calls),
               !.in_pool = {"direction"} \cup {r.calls[i].fn : i \in DOMAIN r.calls}]

\* the whole of translate_message(text, chat_id).  hasDb: self.db is set; row
\* and rows: what the store holds for the chat; langsFail, termsFail: the read
\* fails inside the store
TranslateMessageResult(text, hasDb, chat_id, row, rows, langsFail, termsFail, probeOut, finalOut) ==
  IF IsBlank(text)
  THEN [Idle EXCEPT !.op = "translate_message", !.text = text, !.chat = chat_id]
  ELSE
    LET useDb == hasDb /\ chat_id # 0
        langs == IF useDb THEN GetLanguages(row, langsFail) ELSE <<"ru", "en">>
        primary == langs[1]
        secondary == langs[2]
        lang_pair == LangPair(primary, secondary)
        terms == IF useDb THEN GetTerms(rows, termsFail) ELSE <<>>
        d == ApplyCustomDictionary(text, hasDb, chat_id, lang_pair, terms)
        r == TranslateSync(d.text, primary, secondary, Str(text), probeOut, finalOut)
        rec == SyncRecord("translate_message", d.text, Str(text), primary, secondary, r)
        reads == (IF useDb THEN <<<<"get_languages", <<>>>>>> ELSE <<>>) \o d.reads
    IN  [rec EXCEPT !.text = text, !.chat = chat_id, !.tasks = 1, !.terms = terms,
                    !.on_loop = {reads[i][1] : i \in DOMAIN reads} \cup {"substitute"},
                    !.reads = reads,
                    !.faults = rec.faults
                               \cup (IF useDb /\ langsFail THEN {"get_languages"} ELSE {})
                               \cup (IF d.reads # <<>> /\ termsFail
                                     THEN {"get_terms"} ELSE {})]

-----------------------------------------------------------------------------
(* Speech synthesis: _generate_audio_silero_sync, _generate_audio_sync *)

Step(fn, arg, ok) == [fn |-> fn, arg |-> arg, ok |-> ok]

\* the if / elif chain on lang_code: "" when the language is not in it
SileroModelIdMutant(lang_code) ==
  IF lang_code = "ru" THEN "v4_ru"
  ELSE IF lang_code \in {"uk", "ua"} THEN "v4_ua"
  ELSE "v3_en"
SileroModelId(lang_code) ==
  IF lang_code = "ru" THEN "v4_ru"
  ELSE IF lang_code \in {"uk", "ua"} THEN "v4_ua"
  ELSE IF lang_code = "en" THEN "v3_en"
  ELSE ""

SileroSpeaker(lang_code, gender) ==
  IF lang_code = "ru" THEN (IF gender = "female" THEN "kseniya" ELSE "aidar")
  ELSE IF lang_code \in {"uk", "ua"} THEN "mykyta"
  ELSE (IF gender = "female" THEN "en_1" ELSE "en_2")

WavFile == "tmp/tts_silero.wav"
SileroMp3 == "tmp/tts_silero.mp3"
GttsMp3 == "tmp/tts_gtts.mp3"

\* models: self.silero_models before the call.  loadOk, ttsOk, writeOk,
\* exportOk: whether torch.hub.load, apply_tts, sf.write and the mp3 export
\* return or raise.  path "" is None.
GenerateAudioSileroSync(lang, gender, models, loadOk, ttsOk, writeOk, exportOk) ==
  LET lang_code == LowerCode(lang)
      model_id == SileroModelId(lang_code)
      speaker == SileroSpeaker(lang_code, gender)
      cached == model_id \in models
      load == IF cached THEN <<>> ELSE <<Step("hub_load", model_id, loadOk)>>
      tts == Step("apply_tts", speaker, ttsOk)
      write == Step("sf_write", WavFile, writeOk)
      export == Step("export", SileroMp3, exportOk)
  IN  IF model_id = ""
      THEN [path |-> "", steps |-> <<>>, files |-> {}, models |-> models]
      ELSE IF ~cached /\ ~loadOk
      THEN [path |-> "", steps |-> load, files |-> {}, models |-> models]
      ELSE IF ~ttsOk
      THEN [path |-> "", steps |-> Append(load, tts), files |-> {},
            models |-> models \cup {model_id}]
      ELSE IF ~writeOk
      THEN [path |-> "", steps |-> load \o <<tts, write>>, files |-> {},
            models |-> models \cup {model_id}]
      ELSE IF ~exportOk
      THEN [path |-> "", steps |-> load \o <<tts, write, export>>,
            files |-> {WavFile}, models |-> models \cup {model_id}]
      ELSE [path |-> SileroMp3, steps |-> load \o <<tts, write, export>>,
            files |-> {SileroMp3}, models |-> models \cup {model_id}]

\* gttsOk: whether gTTS(text, lang) and tts.save return or raise
GenerateAudioSyncMutant(lang, gender, models, loadOk, ttsOk, writeOk, exportOk, gttsOk) ==
  LET s == GenerateAudioSileroSync(lang, gender, models, loadOk, ttsOk, writeOk, exportOk)
      g == Step("gtts", lang, gttsOk)
  IN  [path |-> IF gttsOk THEN GttsMp3 ELSE s.path,
       steps |-> Append(s.steps, g),
       files |-> s.files \cup (IF gttsOk THEN {GttsMp3} ELSE {}),
       models |-> s.models]
GenerateAudioSync(lang, gender, models, loadOk, ttsOk, writeOk, exportOk, gttsOk) ==
  LET s == GenerateAudioSileroSync(lang, gender, models, loadOk, ttsOk, writeOk, exportOk)
      g == Step("gtts", lang, gttsOk)
  IN  IF s.path # ""
      THEN s
      ELSE [path |-> IF gttsOk THEN GttsMp3 ELSE "",
            steps |-> Append(s.steps, g),
            files |-> s.files \cup (IF gttsOk THEN {GttsMp3} ELSE {}),
            models |-> s.models]

\* speaker resolution of the synthesis orchestrator: the explicit override,
\* else the chat's preset for (lang, gender), else the built-in default
ResolveSpeakerMutant(lang_code, gender, override, preset) ==
  IF preset # "" THEN preset
  ELSE IF override # "" THEN override
  ELSE SileroSpeaker(lang_code, gender)
ResolveSpeaker(lang_code, gender, override, preset) ==
  IF override # "" THEN override
  ELSE IF preset # "" THEN preset
  ELSE SileroSpeaker(lang_code, gender)

\* the multi-speaker synthesizer run with a resolved speaker
SynthesizeWithSpeaker(lang, gender, override, preset, models, loadOk, ttsOk) ==
  LET lang_code == LowerCode(lang)
      model_id == SileroModelId(lang_code)
      cached == model_id \in models
      load == IF cached THEN <<>> ELSE <<Step("hub_load", model_id, loadOk)>>
      tts == Step("apply_tts", ResolveSpeaker(lang_code, gender, override, preset), ttsOk)
  IN  IF model_id = ""
      THEN [path |-> "", steps |-> <<>>, models |-> models]
      ELSE IF ~cached /\ ~loadOk
      THEN [path |-> "", steps |-> load, models |-> models]
      ELSE [path |-> IF ttsOk THEN SileroMp3 ELSE "", steps |-> Append(load, tts),
            models |-> models \cup {model_id}]

-----------------------------------------------------------------------------
(* Transcription: _get_whisper_model, _transcribe_sync, transcribe_audio *)

\* loaded: self.whisper_model is set.  loadOk: WhisperModel(...) returns.
\* transcribeOut: Raise, or the text of the segments joined by " "
TranscribeSyncMutant(loaded, loadOk, transcribeOut) ==
  [ret |-> None, steps |-> <<>>, loaded |-> loaded]
TranscribeSync(loaded, loadOk, transcribeOut) ==
  LET load == IF loaded THEN <<>> ELSE <<Step("whisper_load", "small", loadOk)>>
      run == Step("whisper_transcribe", "", transcribeOut # Raise)
  IN  IF ~loaded /\ ~loadOk
      THEN [ret |-> None, steps |-> load, loaded |-> FALSE]
      ELSE IF transcribeOut = Raise
      THEN [ret |-> None, steps |-> Append(load, run), loaded |-> TRUE]
      ELSE [ret |-> IF Strip(transcribeOut.s) = <<>>
                    THEN None ELSE Str(Strip(transcribeOut.s)),
            steps |-> Append(load, run), loaded |-> TRUE]

\* the cloud speech-to-text provider: a text, or null on any failure
TranscribeCloudSync(cloudOut) ==
  [ret |-> IF Truthy(cloudOut) THEN cloudOut ELSE None,
   steps |-> <<Step("cloud_stt", "", Truthy(cloudOut))>>]

\* transcribe_audio: the cloud provider first, the local model when it gave nothing
TranscribeAudioResult(loaded, cloudOut, loadOk, transcribeOut) ==
  LET c == TranscribeCloudSync(cloudOut)
      l == TranscribeSync(loaded, loadOk, transcribeOut)
  IN  IF c.ret # None
      THEN [ret |-> c.ret, steps |-> c.steps, loaded |-> loaded]
      ELSE [ret |-> l.ret, steps |-> c.steps \o l.steps, loaded |-> l.loaded]

-----------------------------------------------------------------------------
(* The translation provider chain *)

\* the contextual LLM translator, then the generic phrase translator: one
\* attempt each, the first result wins, null when both raise
TranslationChainMutant(text, target, llmOut, genericOut) ==
  [ret |-> IF llmOut # Raise THEN llmOut ELSE None,
   calls |-> <<Call("llm", text, target, llmOut)>>, exc |-> FALSE]
TranslationChain(text, target, llmOut, genericOut) ==
  LET first == Call("llm", text, target, llmOut)
      second == Call("generic", text, target, genericOut)
  IN  IF llmOut # Raise
      THEN [ret |-> llmOut, calls |-> <<first>>, exc |-> FALSE]
      ELSE IF genericOut # Raise
      THEN [ret |-> genericOut, calls |-> <<first, second>>, exc |-> FALSE]
      ELSE [ret |-> None, calls |-> <<first, second>>, exc |-> FALSE]

-----------------------------------------------------------------------------
(* What the collaborators can return *)

\* provider results: every text the comparison treats as equal to the sample,
\* the empty string, and texts that differ
ProbeResults(sample) ==
  {t \in Texts : Len(t) <= Len(sample) + 1 /\ Strip(Lower(t)) = Strip(Lower(sample))}
    \cup {<<>>, <<97>>, <<1103>>}

ProbeOutcomes(sample) == {Raise, None} \cup {Str(t) : t \in ProbeResults(sample)}
FinalOutcomes == {Raise, None, Str(<<97>>)}

\* the texts a dictionary pass can turn a message with a word in it into
Substituted == {<<97>>, <<1103>>}

HasWord(text) == \E i \in DOMAIN text : IsWordChar(text[i])

\* the text argument a caller passes along with original_text
TextArgs(original) ==
  IF original = None THEN Texts
  ELSE {original.s} \cup (IF HasWord(original.s) THEN Substituted ELSE {})

\* stored rows: source lowercased and trimmed, target trimmed, neither empty
TermSources == {<<97>>, <<1103>>}
TermTargets == {<<97>>, <<1103>>}
TermRows == TermSources \X TermTargets
TermLists ==
  {ts \in SeqsUpTo(TermRows, MaxTerms) :
     \A i, j \in DOMAIN ts : i # j => ts[i][1] # ts[j][1]}

ChatIds == {0, 1}

SynthLangs == {"ru", "RU", "uk", "ua", "en", "de"}
Genders == {"male", "female"}

\* what the local model hears: nothing, blanks, a word, a word after a blank
TranscribeOutcomes == {Raise} \cup {Str(t) : t \in {<<>>, <<32>>, <<97>>, <<32, 97>>}}
\* what the cloud provider returns: null on failure, or a text
CloudOutcomes == {None, Str(<<97>>)}
\* what a provider of the translation chain does
ChainOutcomes == {Raise, Str(<<97>>), Str(<<1103>>)}

-----------------------------------------------------------------------------
(* Front ends: handle_voice, tts_callback, /voice test, HTTP /stt and /tts *)

\* a temp file path: the fixed prefix and the part that varies per call
VoicePath(file_unique_id) == <<"tmp/voice_", file_unique_id>>
UploadPath(uuid, filename) == <<"tmp/roy_upload_", uuid, filename>>

\* a handler record.  path: the temp file of the call, <<>> when it has none;
\* created: the file was on disk at some point of the call; files: the temp
\* files on disk when the handler has returned; raised: an exception left it
IdleHandler ==
  [op |-> "idle", chat |-> 0, mode |-> "", path |-> <<>>, created |-> FALSE,
   steps |-> <<>>, files |-> {}, raised |-> FALSE, text |-> <<>>]

\* the steps up to the first one that raises
UpToFailure(steps) ==
  IF \E i \in DOMAIN steps : ~steps[i].ok
  THEN SubSeq(steps, 1, CHOOSE i \in DOMAIN steps :
                          ~steps[i].ok /\ \A j \in 1..(i - 1) : steps[j].ok)
  ELSE steps

AllOk(steps) == \A i \in DOMAIN steps : steps[i].ok

\* the finally clause on the files on disk: the file is removed when
\* file_path is bound and the path exists; failed: an exception is in flight
FinallyRemoveMutant(bound, disk, failed, path) ==
  IF bound /\ path \in disk /\ ~failed THEN disk \ {path} ELSE disk
FinallyRemove(bound, disk, failed, path) ==
  IF bound /\ path \in disk THEN disk \ {path} ELSE disk

\* handle_voice.  mode: db.get_mode(chat); partial: a download that raises
\* leaves a file behind; transcription: what transcribe_audio returns;
\* translation: what translate_message returns
HandleVoiceResult(chat, mode, file_unique_id, getOk, dlOk, partial, transcription, translation, replyOk) ==
  LET file_path == VoicePath(file_unique_id)
      get == Step("get_file", "", getOk)
      dl == Step("download_to_drive", file_path, dlOk)
      stt == Step("transcribe_audio", file_path, TRUE)
      parts == IF Truthy(translation) /\ Lower(translation.s) # Lower(transcription.s)
               THEN <<transcription.s, translation.s>> ELSE <<transcription.s>>
      rest == IF ~Truthy(transcription) THEN <<>>
              ELSE IF mode = "interactive"
              THEN <<Step("get_languages", chat, TRUE), Step("reply_text", "...", replyOk)>>
                     \o (IF replyOk
                         THEN <<Step("add_transcription", transcription.s, TRUE)>>
                         ELSE <<>>)
              ELSE <<Step("translate_message", transcription.s, TRUE),
                     Step("reply_text", parts, replyOk)>>
      steps == UpToFailure(<<get, dl, stt>> \o rest)
      bound == getOk
      disk == IF getOk /\ (dlOk \/ partial) THEN {file_path} ELSE {}
  IN  IF mode \in {"off", "manual"}
      THEN [IdleHandler EXCEPT !.op = "handle_voice", !.chat = chat, !.mode = mode]
      ELSE [IdleHandler EXCEPT !.op = "handle_voice", !.chat = chat, !.mode = mode,
                               !.path = IF bound THEN file_path ELSE <<>>,
                               !.created = disk # {}, !.steps = steps,
                               !.files = FinallyRemove(bound, disk, ~AllOk(steps),
                                                       file_path)]

\* target_lang = l2 if has_cyrillic else l1: the language the button names
ButtonTarget(text, l1, l2) == IF HasCyrillic(text) THEN l2 ELSE l1

\* the "..." reply with one translate_this button, and the pending text
Placeholder(target_lang) ==
  [text |-> "...", callback_data |-> "translate_this", target_lang |-> target_lang]
PendingMutant(chat, message_id, text) == [key |-> <<chat, message_id + 1>>, text |-> text]
Pending(chat, message_id, text) == [key |-> <<chat, message_id>>, text |-> text]

\* handle_message.  mode: db.get_mode(chat); l1, l2: db.get_languages(chat);
\* message_id: the id of the message reply_text sends; translation: what
\* translate_message returns.  reply_text raising leaves the handler.
HandleMessageResultMutant(chat, mode, text, l1, l2, message_id, translation, replyOk) ==
  [IdleHandler EXCEPT !.op = "handle_message", !.chat = chat, !.mode = mode,
                      !.steps = <<Step("translate_message", text, TRUE)>>]
HandleMessageResult(chat, mode, text, l1, l2, message_id, translation, replyOk) ==
  LET ran == [IdleHandler EXCEPT !.op = "handle_message", !.chat = chat, !.text = text]
      read == [ran EXCEPT !.mode = mode]
      interactive ==
        UpToFailure(<<Step("get_languages", chat, TRUE),
                      Step("reply_text", Placeholder(ButtonTarget(text, l1, l2)), replyOk),
                      Step("add_transcription", Pending(chat, message_id, text), TRUE)>>)
      auto ==
        <<Step("translate_message", text, TRUE)>>
          \o (IF Truthy(translation) /\ translation.s # text
              THEN <<Step("reply_text", translation.s, replyOk)>> ELSE <<>>)
  IN  IF text = <<>> THEN ran
      ELSE IF mode \in {"off", "manual"} THEN read
      ELSE IF ~HasWord(text) THEN read
      ELSE IF mode = "interactive"
      THEN [read EXCEPT !.steps = interactive, !.raised = ~replyOk]
      ELSE [read EXCEPT !.steps = auto, !.raised = ~AllOk(auto)]

\* the mode store: get_mode gives auto for a chat with no stored mode, and
\* what the last successful set_mode stored otherwise
GetMode(stored) == IF stored = "" THEN "auto" ELSE stored
SetModeResult(rows, chat_id, mode, fails) ==
  IF fails THEN [rows |-> rows, ok |-> FALSE]
  ELSE [rows |-> [rows EXCEPT ![chat_id] = mode], ok |-> TRUE]

\* the pending-text store: add_transcription(key, text), get_transcription(key)
AddTranscription(rows, key, text) ==
  {r \in rows : r.key # key} \cup {[key |-> key, text |-> text]}
GetTranscription(rows, key) ==
  IF \E r \in rows : r.key = key
  THEN Str((CHOOSE r \in rows : r.key = key).text) ELSE None

\* a placeholder message: voice tells a voice placeholder from a text one,
\* reply_to is the text of the message it answers (None once that is gone, or
\* for a voice message) and original what that text was when it was sent,
\* shown the text after the microphone sign once transcribe_this has run,
\* open whether it still carries a translate_this button
SentMessage(chat, voice, reply_to, target_lang) ==
  [chat |-> chat, voice |-> voice, reply_to |-> reply_to, target_lang |-> target_lang,
   original |-> reply_to, shown |-> None, open |-> TRUE]

\* lines 35-62 of translate_callback: the text to use and is_voice.  stored:
\* what get_transcription returned; found FALSE is the "Content expired" exit
TextToUse(bot_message, stored) ==
  LET potential_text == IF Truthy(bot_message.shown) THEN Strip(bot_message.shown.s)
                        ELSE <<>>
  IN  IF Truthy(stored)
      THEN [found |-> TRUE, text |-> stored.s, is_voice |-> TRUE]
      ELSE IF potential_text # <<>>
      THEN [found |-> TRUE, text |-> potential_text, is_voice |-> TRUE]
      ELSE IF Truthy(bot_message.reply_to)
      THEN [found |-> TRUE, text |-> bot_message.reply_to.s, is_voice |-> FALSE]
      ELSE [found |-> FALSE, text |-> <<>>, is_voice |-> FALSE]

\* translate_callback on bot_message with query.data = action.  tr: the
\* record of the translate_message call the translate_this branch makes
TranslateCallbackResult(chat, message_id, bot_message, action, stored, tr) ==
  LET use == TextToUse(bot_message, stored)
      read == Step("get_transcription", <<chat, message_id>>, TRUE)
      rec == [IdleHandler EXCEPT !.op = "translate_callback", !.chat = chat]
  IN  IF ~use.found
      THEN [rec EXCEPT !.steps = <<read, Step("edit_text", "expired", TRUE)>>]
      ELSE IF action = "transcribe_this"
      THEN [rec EXCEPT !.steps = <<read, Step("edit_text", use.text, TRUE)>>]
      ELSE IF action = "translate_this"
      THEN [rec EXCEPT !.steps =
              <<read,
                Step("translate_message",
                     [text |-> use.text, target |-> tr.target, ret |-> tr.ret], TRUE),
                Step("edit_text", IF Truthy(tr.ret) THEN "translation" ELSE "failed",
                     TRUE)>>]
      ELSE [rec EXCEPT !.steps = <<read>>]

\* POST /stt.  saveOk: open and copyfileobj return; text: transcribe_audio
SpeechToTextResult(uuid, filename, saveOk, partial, text) ==
  LET temp_filename == UploadPath(uuid, filename)
      save == Step("copyfileobj", temp_filename, saveOk)
      stt == Step("transcribe_audio", temp_filename, TRUE)
      check == Step("not_empty", text, Truthy(text))
      steps == UpToFailure(<<save, stt, check>>)
      disk == IF saveOk \/ partial THEN {temp_filename} ELSE {}
  IN  [IdleHandler EXCEPT !.op = "speech_to_text", !.path = temp_filename,
                          !.created = disk # {}, !.steps = steps,
                          !.files = FinallyRemove(TRUE, disk, ~AllOk(steps),
                                                  temp_filename),
                          !.raised = ~AllOk(steps)]

\* tts_callback and /voice test: generate_audio, reply_voice, os.remove.
\* genOut: "raise", or the path generate_audio returns, "" for None
SendAudioResult(op, genOut, sendOk) ==
  LET gen == Step("generate_audio", "", genOut # "raise")
      send == Step("reply_voice", genOut, sendOk)
      remove == Step("os_remove", genOut, TRUE)
      steps == IF genOut \in {"raise", ""} THEN <<gen>>
               ELSE UpToFailure(<<gen, send, remove>>)
      has == genOut \notin {"raise", ""}
  IN  [IdleHandler EXCEPT !.op = op, !.path = IF has THEN <<genOut>> ELSE <<>>,
                          !.created = has, !.steps = steps,
                          !.files = IF has /\ ~sendOk THEN {<<genOut>>} ELSE {}]

\* POST /tts: generate_audio, then the file is handed to FileResponse
TextToSpeechResult(genOut) ==
  LET has == genOut # ""
      steps == <<Step("generate_audio", "", TRUE), Step("path_exists", genOut, has)>>
                 \o (IF has THEN <<Step("FileResponse", genOut, TRUE)>> ELSE <<>>)
  IN  [IdleHandler EXCEPT !.op = "text_to_speech",
                          !.path = IF has THEN <<genOut>> ELSE <<>>,
                          !.created = has, !.steps = steps,
                          !.files = IF has THEN {<<genOut>>} ELSE {},
                          !.raised = ~has]

Modes == {"off", "manual", "auto", "interactive"}
FileIds == {1, 2}
Chats == {1, 2}
Uuids == {1, 2}
Filenames == {"a.ogg", "b.wav"}
Transcriptions == {None, Str(<<>>), Str(<<97>>), Str(<<1103>>)}
Translations == {None, Str(<<97>>), Str(<<65>>), Str(<<1103>>)}
AudioPaths == {"", SileroMp3, GttsMp3}

-----------------------------------------------------------------------------
(* Lazy model loading on the pool threads *)

Workers == 1..max_workers

\* the local ASR model and the synthesis model ids
LazyModels == {"whisper", "v4_ru", "v3_en"}

\* a pool thread: where it is in the lazy load, and for which model
IdleWorker == [pc |-> "idle", model |-> ""]

\* self.whisper_model is not None / model_id in self.silero_models
Cached(model, whisper, silero) ==
  IF model = "whisper" THEN whisper ELSE model \in silero

-----------------------------------------------------------------------------
(* The worker pool: run_in_executor(self._executor, ...) *)

TaskIds == 1..MaxTasks

\* the threads of the executor
PoolSizeMutant == max_workers - 3
PoolSize == max_workers

\* the tasks that hold a pool thread
Busy(st) == {t \in TaskIds : st[t] \in {"running", "hung"}}

-----------------------------------------------------------------------------
(* Actions *)

\* an audio call record.  steps: the provider steps attempted, in order;
\* files: the temp files of the call that exist when it returns; path: the
\* file returned, "" for None; ret: the text returned; override, preset: the
\* speaker override passed and the preset stored for the chat, "" for none
IdleAudio ==
  [op |-> "idle", lang |-> "", gender |-> "", steps |-> <<>>, files |-> {},
   path |-> "", ret |-> None, escaped |-> FALSE, cached |-> {}, loaded |-> FALSE,
   override |-> "", preset |-> ""]

\* the steps that run inside a try block whose handler returns None
GuardedSteps ==
  {"hub_load", "apply_tts", "sf_write", "export", "gtts",
   "whisper_load", "whisper_transcribe", "cloud_stt"}

Escapes(steps) == \E i \in DOMAIN steps : ~steps[i].ok /\ steps[i].fn \notin GuardedSteps

Init ==
  /\ last = Idle
  /\ pair = <<>>
  /\ audio = IdleAudio
  /\ silero_models = {}
  /\ whisper_model = FALSE
  /\ handler = IdleHandler
  /\ inflight = {}
  /\ issued = {}
  /\ tmp_dir = {}
  /\ loaders = [w \in Workers |-> IdleWorker]
  /\ constructed = [m \in LazyModels |-> 0]
  /\ tasks = [t \in TaskIds |-> "new"]
  /\ subst_run = IdleRun
  /\ dictionary = {}
  /\ settings = [c \in Chats |-> <<>>]
  /\ exports = {}
  /\ now = 0
  /\ db_last = IdleDb
  /\ variations_run = IdleVariations
  /\ clean = IdleClean
  /\ chat_mode = [c \in Chats |-> ""]
  /\ transcriptions = {}
  /\ sent = <<>>
  /\ stopped = {}

\* _translate_sync called directly (tests, the HTTP /translate endpoint)
TranslateSyncCall ==
  /\ last = Idle /\ audio = IdleAudio
  /\ \E original \in {None} \cup {Str(t) : t \in Texts}, primary, secondary \in Langs :
      \E text \in TextArgs(original) :
        \E probeOut \in ProbeOutcomes(SampleText(text, original)),
           finalOut \in FinalOutcomes :
          last' = SyncRecord("_translate_sync", text, original, primary, secondary,
                    TranslateSync(text, primary, secondary, original, probeOut, finalOut))
  /\ UNCHANGED <<pair, auVars, feVars>>

TranslateMessage ==
  /\ last = Idle /\ audio = IdleAudio
  /\ \E text \in Texts, chat_id \in ChatIds, hasDb \in BOOLEAN :
       LET useDb == hasDb /\ chat_id # 0 IN
       \E langsFail, termsFail \in (IF useDb THEN BOOLEAN ELSE {FALSE}) :
       \E row \in (IF useDb /\ ~langsFail THEN {<<>>} \cup (Langs \X Langs) ELSE {<<>>}),
          rows \in (IF useDb /\ ~termsFail THEN TermLists ELSE {<<>>}) :
         \E probeOut \in ProbeOutcomes(text), finalOut \in FinalOutcomes :
           last' = TranslateMessageResult(text, hasDb, chat_id, row, rows, langsFail,
                                          termsFail, probeOut, finalOut)
  /\ UNCHANGED <<pair, auVars, feVars>>

\* the caller takes the result; the service is ready for the next call
Return ==
  /\ last # Idle
  /\ last' = Idle
  /\ UNCHANGED <<pair, auVars, feVars>>

\* one run of the translation provider chain
TranslateViaChain ==
  /\ last = Idle /\ audio = IdleAudio
  /\ \E text \in Texts \ {<<>>}, target \in Langs, llmOut, genericOut \in ChainOutcomes :
       LET r == TranslationChain(text, target, llmOut, genericOut)
       IN  last' = [Idle EXCEPT !.op = "translation_chain", !.text = text,
                                !.subst = text, !.target = target, !.calls = r.calls,
                                !.ret = r.ret, !.escaped = r.exc,
                                !.faults = ProviderFaults(r.calls)]
  /\ UNCHANGED <<pair, auVars, feVars>>

\* generate_audio(text, lang, gender): one pool task running _generate_audio_sync
GenerateAudio ==
  /\ last = Idle /\ audio = IdleAudio
  /\ \E lang \in SynthLangs, gender \in Genders,
        loadOk, ttsOk, writeOk, exportOk, gttsOk \in BOOLEAN :
       LET r == GenerateAudioSync(lang, gender, silero_models, loadOk, ttsOk,
                                  writeOk, exportOk, gttsOk)
       IN  /\ audio' = [IdleAudio EXCEPT !.op = "generate_audio", !.lang = lang,
                                        !.gender = gender, !.steps = r.steps,
                                        !.files = r.files, !.path = r.path,
                                        !.escaped = Escapes(r.steps),
                                        !.cached = silero_models,
                                        !.loaded = whisper_model]
           /\ silero_models' = r.models
  /\ UNCHANGED <<trVars, whisper_model, feVars>>

\* transcribe_audio(file_path)
TranscribeAudio ==
  /\ last = Idle /\ audio = IdleAudio
  /\ \E cloudOut \in CloudOutcomes, loadOk \in BOOLEAN,
        transcribeOut \in TranscribeOutcomes :
       LET r == TranscribeAudioResult(whisper_model, cloudOut, loadOk, transcribeOut)
       IN  /\ audio' = [IdleAudio EXCEPT !.op = "transcribe_audio", !.steps = r.steps,
                                        !.ret = r.ret, !.escaped = Escapes(r.steps),
                                        !.cached = silero_models,
                                        !.loaded = whisper_model]
           /\ whisper_model' = r.loaded
  /\ UNCHANGED <<trVars, silero_models, feVars>>

\* the caller takes the audio result
ReturnAudio ==
  /\ audio # IdleAudio
  /\ audio' = IdleAudio
  /\ UNCHANGED <<trVars, silero_models, whisper_model, feVars>>

NextTranslate == TranslateSyncCall \/ TranslateMessage \/ TranslateViaChain \/ Return

NextAudio == GenerateAudio \/ TranscribeAudio \/ ReturnAudio

SpecAudio == Init /\ [][NextAudio]_vars

\* overrides and presets: none, or a speaker id of the model
Speakers == {"", "en_45", "baya"}

\* synthesize(text, lang, gender_or_speaker_override) for a chat with a preset
Synthesize ==
  /\ last = Idle /\ audio = IdleAudio
  /\ \E lang \in SynthLangs, gender \in Genders, override, preset \in Speakers,
        loadOk, ttsOk \in BOOLEAN :
       LET r == SynthesizeWithSpeaker(lang, gender, override, preset, silero_models,
                                      loadOk, ttsOk)
       IN  /\ audio' = [IdleAudio EXCEPT !.op = "synthesize", !.lang = lang,
                                        !.gender = gender, !.steps = r.steps,
                                        !.path = r.path, !.cached = silero_models,
                                        !.loaded = whisper_model,
                                        !.override = override, !.preset = preset]
           /\ silero_models' = r.models
  /\ UNCHANGED <<trVars, whisper_model, feVars>>

\* a voice message arrives
HandleVoice ==
  /\ handler = IdleHandler
  /\ \E chat \in Chats, mode \in Modes, file_unique_id \in FileIds,
        getOk, dlOk, partial, replyOk \in BOOLEAN,
        transcription \in Transcriptions, translation \in Translations :
       handler' = HandleVoiceResult(chat, mode, file_unique_id, getOk, dlOk, partial,
                                    transcription, translation, replyOk)
  /\ UNCHANGED <<svcVars, tmpVars, ldVars, poolVars, dictVars, extVars>>

SpeechToText ==
  /\ handler = IdleHandler
  /\ \E uuid \in Uuids, filename \in Filenames, saveOk, partial \in BOOLEAN,
        text \in Transcriptions :
       handler' = SpeechToTextResult(uuid, filename, saveOk, partial, text)
  /\ UNCHANGED <<svcVars, tmpVars, ldVars, poolVars, dictVars, extVars>>

\* the Speak button
TtsCallback ==
  /\ handler = IdleHandler
  /\ \E genOut \in AudioPaths, sendOk \in BOOLEAN :
       handler' = SendAudioResult("tts_callback", genOut, sendOk)
  /\ UNCHANGED <<svcVars, tmpVars, ldVars, poolVars, dictVars, extVars>>

\* /voice test <lang> <speaker>
VoiceTest ==
  /\ handler = IdleHandler
  /\ \E genOut \in AudioPaths \cup {"raise"}, sendOk \in BOOLEAN :
       handler' = SendAudioResult("voice_test", genOut, sendOk)
  /\ UNCHANGED <<svcVars, tmpVars, ldVars, poolVars, dictVars, extVars>>

TextToSpeech ==
  /\ handler = IdleHandler
  /\ \E genOut \in AudioPaths : handler' = TextToSpeechResult(genOut)
  /\ UNCHANGED <<svcVars, tmpVars, ldVars, poolVars, dictVars, extVars>>

ReturnHandler ==
  /\ handler # IdleHandler
  /\ handler' = IdleHandler
  /\ UNCHANGED <<svcVars, tmpVars, ldVars, poolVars, dictVars, extVars>>

\* a text message arrives; the mode is whatever db.get_mode returns
MessageTexts == {<<>>, <<32>>, <<97>>, <<1103>>, <<97, 32>>}
MessageIds == {7, 9}

HandleMessage ==
  /\ handler = IdleHandler
  /\ \E chat \in Chats, mode \in Modes, text \in MessageTexts, cfg \in Langs \X Langs,
        message_id \in MessageIds, translation \in Translations, replyOk \in BOOLEAN :
       handler' = HandleMessageResult(chat, mode, text, cfg[1], cfg[2], message_id,
                                      translation, replyOk)
  /\ UNCHANGED <<svcVars, tmpVars, ldVars, poolVars, dictVars, extVars>>

NextHandlers == HandleMessage \/ HandleVoice \/ ReturnHandler

SpecHandlers == Init /\ [][NextHandlers]_vars

NextFront ==
  HandleVoice \/ SpeechToText \/ TtsCallback \/ VoiceTest \/ TextToSpeech \/ ReturnHandler

SpecFront == Init /\ [][NextFront]_vars

\* a request that holds a temp file while it runs
Request(id, kind, path) == [id |-> id, kind |-> kind, path |-> path]

\* the number of the next request: the least one no running request has
NextRequest ==
  CHOOSE id \in 1..MaxRequests :
    /\ \A r \in inflight : r.id # id
    /\ \A j \in 1..(id - 1) : \E r \in inflight : r.id = j

\* uuid.uuid4(): a value no earlier call has returned
FreshUuids == (1..MaxUuids) \ issued

SynthPath(prefix, uuid) == <<prefix, uuid>>

\* handle_voice downloads the voice note of the update to its temp path
BeginVoice ==
  /\ Cardinality(inflight) < MaxRequests
  /\ \E file_unique_id \in FileIds :
       /\ inflight' = inflight \cup {Request(NextRequest, "handle_voice", VoicePath(file_unique_id))}
       /\ tmp_dir' = tmp_dir \cup {VoicePath(file_unique_id)}
  /\ UNCHANGED <<svcVars, handler, issued, ldVars, poolVars, dictVars, extVars>>

\* POST /stt saves the upload under a name with a fresh uuid
BeginStt ==
  /\ Cardinality(inflight) < MaxRequests
  /\ \E uuid \in FreshUuids, filename \in Filenames :
       /\ inflight' = inflight \cup {Request(NextRequest, "speech_to_text", UploadPath(uuid, filename))}
       /\ tmp_dir' = tmp_dir \cup {UploadPath(uuid, filename)}
       /\ issued' = issued \cup {uuid}
  /\ UNCHANGED <<svcVars, handler, ldVars, poolVars, dictVars, extVars>>

\* a synthesis call writes its output under a name with a fresh uuid
BeginSynth ==
  /\ Cardinality(inflight) < MaxRequests
  /\ \E uuid \in FreshUuids, prefix \in {"tmp/tts_silero_", "tmp/tts_gtts_"} :
       /\ inflight' = inflight \cup {Request(NextRequest, "generate_audio", SynthPath(prefix, uuid))}
       /\ tmp_dir' = tmp_dir \cup {SynthPath(prefix, uuid)}
       /\ issued' = issued \cup {uuid}
  /\ UNCHANGED <<svcVars, handler, ldVars, poolVars, dictVars, extVars>>

\* a request ends: its cleanup removes its temp path
EndRequest ==
  /\ \E r \in inflight :
       /\ inflight' = inflight \ {r}
       /\ tmp_dir' = tmp_dir \ {r.path}
  /\ UNCHANGED <<svcVars, handler, issued, ldVars, poolVars, dictVars, extVars>>

NextTemp == BeginVoice \/ BeginStt \/ BeginSynth \/ EndRequest

SpecTemp == Init /\ [][NextTemp]_vars

\* a pool thread enters _get_whisper_model or the lazy load of a synthesis
\* model and tests the cache
TestCache(w) ==
  /\ loaders[w].pc = "idle"
  /\ \E m \in LazyModels :
       loaders' = [loaders EXCEPT ![w] =
                     [pc |-> IF Cached(m, whisper_model, silero_models)
                             THEN "use" ELSE "construct",
                      model |-> m]]
  /\ UNCHANGED <<trVars, auVars, constructed, handler, tmpVars, poolVars, dictVars, extVars>>

\* WhisperModel(...) / torch.hub.load(...): returns an instance, or raises
Construct(w) ==
  /\ loaders[w].pc = "construct"
  /\ \/ /\ constructed' = [constructed EXCEPT ![loaders[w].model] = @ + 1]
        /\ loaders' = [loaders EXCEPT ![w].pc = "assign"]
     \/ /\ loaders' = [loaders EXCEPT ![w] = IdleWorker]
        /\ UNCHANGED constructed
  /\ UNCHANGED <<trVars, auVars, handler, tmpVars, poolVars, dictVars, extVars>>

\* self.whisper_model = ... / self.silero_models[model_id] = model
AssignCache(w) ==
  /\ loaders[w].pc = "assign"
  /\ IF loaders[w].model = "whisper"
     THEN whisper_model' = TRUE /\ UNCHANGED silero_models
     ELSE silero_models' = silero_models \cup {loaders[w].model} /\ UNCHANGED whisper_model
  /\ loaders' = [loaders EXCEPT ![w].pc = "use"]
  /\ UNCHANGED <<trVars, audio, constructed, handler, tmpVars, poolVars, dictVars, extVars>>

\* the call runs on the instance it holds and the task ends
UseModel(w) ==
  /\ loaders[w].pc = "use"
  /\ loaders' = [loaders EXCEPT ![w] = IdleWorker]
  /\ UNCHANGED <<trVars, auVars, constructed, handler, tmpVars, poolVars, dictVars, extVars>>

NextLoad ==
  \E w \in Workers : TestCache(w) \/ Construct(w) \/ AssignCache(w) \/ UseModel(w)

SpecLoad == Init /\ [][NextLoad]_vars

\* an entry point submits its blocking work and suspends; the event loop goes
\* on.  Tasks are numbered in the order they are submitted
Submit(t) ==
  /\ tasks[t] = "new"
  /\ \A u \in 1..(t - 1) : tasks[u] # "new"
  /\ tasks' = [tasks EXCEPT ![t] = "queued"]
  /\ UNCHANGED <<svcVars, handler, tmpVars, ldVars, dictVars, extVars>>

\* a free pool thread takes the task at the head of the queue
StartTask(t) ==
  /\ tasks[t] = "queued"
  /\ \A u \in 1..(t - 1) : tasks[u] # "queued"
  /\ Cardinality(Busy(tasks)) < PoolSize
  /\ tasks' = [tasks EXCEPT ![t] = "running"]
  /\ UNCHANGED <<svcVars, handler, tmpVars, ldVars, dictVars, extVars>>

\* the work returns (a result or None) and the thread is free again
FinishTask(t) ==
  /\ tasks[t] = "running"
  /\ tasks' = [tasks EXCEPT ![t] = "done"]
  /\ UNCHANGED <<svcVars, handler, tmpVars, ldVars, dictVars, extVars>>

\* a provider call of the task never returns
HangTask(t) ==
  /\ tasks[t] = "running"
  /\ Cardinality({u \in TaskIds : tasks[u] = "hung"}) < MaxHung
  /\ tasks' = [tasks EXCEPT ![t] = "hung"]
  /\ UNCHANGED <<svcVars, handler, tmpVars, ldVars, dictVars, extVars>>

NextPool ==
  \E t \in TaskIds : Submit(t) \/ StartTask(t) \/ FinishTask(t) \/ HangTask(t)

\* a free thread takes queued work, and a call that does not hang returns
SpecPool ==
  /\ Init /\ [][NextPool]_vars
  /\ \A t \in TaskIds : WF_vars(StartTask(t)) /\ WF_vars(FinishTask(t))

\* _apply_custom_dictionary(text, chat_id, lang_pair) with the rows of the chat
Substitute ==
  /\ subst_run = IdleRun
  /\ \E text \in DictTexts, terms \in DictRows :
       subst_run' = [text |-> text, terms |-> terms, ran |-> TRUE,
                     raising |-> {}, escaped |-> FALSE,
                     out |-> ApplyCustomDictionary(text, TRUE, 1, "en-ru", terms).text]
  /\ UNCHANGED <<svcVars, handler, tmpVars, ldVars, poolVars, extVars>>

ReturnSubstitute ==
  /\ subst_run # IdleRun
  /\ subst_run' = IdleRun
  /\ UNCHANGED <<svcVars, handler, tmpVars, ldVars, poolVars, extVars>>

NextDict == Substitute \/ ReturnSubstitute

\* _apply_custom_dictionary when the pattern of some of the rows raises
SubstituteRaising ==
  /\ subst_run = IdleRun
  /\ \E text \in FaultTexts, terms \in DictRows :
       \E raising \in SUBSET {terms[i][1] : i \in DOMAIN terms} :
         /\ raising # {}
         /\ LET r == ApplyTermsGuarded(text, SortByLen(terms, MaxSourceLen(terms)),
                                       raising)
            IN  subst_run' = [text |-> text, terms |-> terms, ran |-> TRUE,
                              raising |-> raising, escaped |-> r.escaped,
                              out |-> r.text]
  /\ UNCHANGED <<svcVars, handler, tmpVars, ldVars, poolVars, extVars>>

NextDictFault == SubstituteRaising \/ ReturnSubstitute

\* HeuristicInflector.get_variations(word)
GetVariationsCall ==
  /\ variations_run = IdleVariations
  /\ \E word \in Words :
       variations_run' = [op |-> "get_variations", word |-> word,
                          ret |-> GetVariations(word)]
  /\ UNCHANGED <<svcVars, handler, tmpVars, ldVars, poolVars, dictVars, dbVars, chatVars>>

ReturnVariations ==
  /\ variations_run # IdleVariations
  /\ variations_run' = IdleVariations
  /\ UNCHANGED <<svcVars, handler, tmpVars, ldVars, poolVars, dictVars, dbVars, chatVars>>

NextInflector == GetVariationsCall \/ ReturnVariations

\* Database.add_term(chat_id, source, target, lang_pair), the table holding
\* at most cap rows
AddTermUpTo(cap) ==
  /\ db_last.op = "idle"
  /\ \E chat_id \in Chats, source \in RawSources, target \in RawTargets :
       \E lang_pair \in RawPairs, fails \in BOOLEAN :
         LET r == AddTermResult(dictionary, chat_id, source, target, lang_pair, fails)
             key == <<chat_id, NormPair(lang_pair), SourceLower(source)>>
         IN  /\ Cardinality(r.rows) <= cap
             /\ dictionary' = r.rows
             /\ db_last' = [IdleDb EXCEPT !.op = "add_term", !.chat = chat_id,
                              !.lang_pair = lang_pair, !.source = source,
                              !.target = target, !.ok = r.ok, !.failed = fails,
                              !.replaced = r.ok /\ \E q \in dictionary :
                                             RowKey(q) = key /\ q \notin r.rows]
  /\ UNCHANGED <<svcVars, handler, tmpVars, ldVars, poolVars, dictVars, inflVars, chatVars>>
  /\ UNCHANGED <<settings, exports, now>>

AddTerm == AddTermUpTo(MaxStored)

\* Database.remove_term(chat_id, source, lang_pair)
RemoveTerm ==
  /\ db_last.op = "idle"
  /\ \E chat_id \in Chats, source \in RawSources, lang_pair \in RawPairs :
       \E fails \in BOOLEAN :
         LET r == RemoveTermResult(dictionary, chat_id, source, lang_pair, fails)
         IN  /\ dictionary' = r.rows
             /\ db_last' = [IdleDb EXCEPT !.op = "remove_term", !.chat = chat_id,
                              !.lang_pair = lang_pair, !.source = source,
                              !.ok = r.ok, !.failed = fails]
  /\ UNCHANGED <<svcVars, handler, tmpVars, ldVars, poolVars, dictVars, inflVars, chatVars>>
  /\ UNCHANGED <<settings, exports, now>>

\* Database.get_terms(chat_id, lang_pair)
GetTermsCall ==
  /\ db_last.op = "idle"
  /\ \E chat_id \in Chats, lang_pair \in RawPairs, fails \in BOOLEAN :
       db_last' = [IdleDb EXCEPT !.op = "get_terms", !.chat = chat_id,
                    !.lang_pair = lang_pair, !.failed = fails,
                    !.rows = GetTermsResult(dictionary, chat_id, lang_pair, fails)]
  /\ UNCHANGED <<svcVars, handler, tmpVars, ldVars, poolVars, dictVars, inflVars, chatVars>>
  /\ UNCHANGED <<dictionary, settings, exports, now>>

ReturnDb ==
  /\ db_last.op # "idle"
  /\ db_last' = IdleDb
  /\ UNCHANGED <<svcVars, handler, tmpVars, ldVars, poolVars, dictVars, inflVars, chatVars>>
  /\ UNCHANGED <<dictionary, settings, exports, now>>

NextTerms == AddTerm \/ RemoveTerm \/ GetTermsCall \/ ReturnDb

\* /lang set l1 l2: Database.set_languages
SetLanguages ==
  /\ db_last.op = "idle"
  /\ \E chat_id \in CmdChats, cfg \in CmdConfigs, fails \in BOOLEAN :
       LET r == SetLanguagesResult(settings, chat_id, cfg[1], cfg[2], fails)
       IN  /\ settings' = r.rows
           /\ db_last' = [IdleDb EXCEPT !.op = "set_languages", !.chat = chat_id,
                            !.l1 = cfg[1], !.l2 = cfg[2], !.ok = r.ok, !.failed = fails]
  /\ UNCHANGED <<svcVars, handler, tmpVars, ldVars, poolVars, dictVars, inflVars, chatVars>>
  /\ UNCHANGED <<dictionary, exports, now>>

\* /dict add source target
DictAdd ==
  /\ db_last.op = "idle"
  /\ \E chat_id \in CmdChats, source \in CmdSources, target \in CmdTargets :
       \E langsFail \in BOOLEAN, failing \in FailChoices(source) :
         LET langs == GetLanguages(settings[chat_id], langsFail)
             r == DictAddResult(dictionary, chat_id, langs[1], langs[2], source, target,
                                failing)
         IN  /\ dictionary' = r.rows
             /\ db_last' = [IdleDb EXCEPT !.op = "dict_add", !.chat = chat_id,
                              !.l1 = langs[1], !.l2 = langs[2],
                              !.lang_pair = r.lang_pair, !.source = source,
                              !.target = target, !.count = r.count, !.reply = r.reply,
                              !.failed = failing # {}]
  /\ UNCHANGED <<svcVars, handler, tmpVars, ldVars, poolVars, dictVars, inflVars, chatVars>>
  /\ UNCHANGED <<settings, exports, now>>

\* POST /dict/add
ApiAddTerm ==
  /\ db_last.op = "idle"
  /\ \E chat_id \in CmdChats, source \in CmdSources, target \in CmdTargets :
       \E cfg \in CmdConfigs, failing \in FailChoices(source) :
         LET r == ApiAddTermResult(dictionary, chat_id, cfg[1], cfg[2], source, target,
                                   failing)
         IN  /\ dictionary' = r.rows
             /\ db_last' = [IdleDb EXCEPT !.op = "api_dict_add", !.chat = chat_id,
                              !.l1 = cfg[1], !.l2 = cfg[2],
                              !.lang_pair = r.lang_pair, !.source = source,
                              !.target = target, !.count = r.count, !.reply = r.reply,
                              !.failed = failing # {}]
  /\ UNCHANGED <<svcVars, handler, tmpVars, ldVars, poolVars, dictVars, inflVars, chatVars>>
  /\ UNCHANGED <<settings, exports, now>>

\* /dict remove source
DictRemove ==
  /\ db_last.op = "idle"
  /\ \E chat_id \in CmdChats, source \in CmdSources, langsFail, fails \in BOOLEAN :
       LET langs == GetLanguages(settings[chat_id], langsFail)
           lang_pair == LangPair(langs[1], langs[2])
           r == RemoveTermResult(dictionary, chat_id, source, lang_pair, fails)
       IN  /\ dictionary' = r.rows
           /\ db_last' = [IdleDb EXCEPT !.op = "dict_remove", !.chat = chat_id,
                            !.l1 = langs[1], !.l2 = langs[2], !.lang_pair = lang_pair,
                            !.source = source, !.ok = r.ok, !.failed = fails,
                            !.reply = IF r.ok THEN "Removed" ELSE "not found"]
  /\ UNCHANGED <<svcVars, handler, tmpVars, ldVars, poolVars, dictVars, inflVars, chatVars>>
  /\ UNCHANGED <<settings, exports, now>>

\* POST /dict/remove
ApiRemoveTerm ==
  /\ db_last.op = "idle"
  /\ \E chat_id \in CmdChats, source \in CmdSources, cfg \in CmdConfigs :
       \E fails \in BOOLEAN :
         LET lang_pair == LangPair(cfg[1], cfg[2])
             r == RemoveTermResult(dictionary, chat_id, source, lang_pair, fails)
         IN  /\ dictionary' = r.rows
             /\ db_last' = [IdleDb EXCEPT !.op = "api_dict_remove", !.chat = chat_id,
                              !.l1 = cfg[1], !.l2 = cfg[2], !.lang_pair = lang_pair,
                              !.source = source, !.ok = r.ok, !.failed = fails,
                              !.reply = IF r.ok THEN "ok" ELSE "404"]
  /\ UNCHANGED <<svcVars, handler, tmpVars, ldVars, poolVars, dictVars, inflVars, chatVars>>
  /\ UNCHANGED <<settings, exports, now>>

\* /dict list, and lines 168-176 of translate_message with line 136: the codes
\* of the chat, the sorted key, get_terms
ReadChatTerms ==
  /\ db_last.op = "idle"
  /\ \E chat_id \in CmdChats, op \in {"dict_list", "translate_message"} :
       \E langsFail, fails \in BOOLEAN :
         LET langs == GetLanguages(settings[chat_id], langsFail)
             lang_pair == LangPair(langs[1], langs[2])
         IN  db_last' = [IdleDb EXCEPT !.op = op, !.chat = chat_id,
                          !.l1 = langs[1], !.l2 = langs[2], !.lang_pair = lang_pair,
                          !.failed = fails,
                          !.rows = GetTermsResult(dictionary, chat_id, lang_pair, fails)]
  /\ UNCHANGED <<svcVars, handler, tmpVars, ldVars, poolVars, dictVars, inflVars, chatVars>>
  /\ UNCHANGED <<dictionary, settings, exports, now>>

\* GET /dict/list/{chat_id}, and the dictionary step of POST /translate
ApiReadTerms ==
  /\ db_last.op = "idle"
  /\ \E chat_id \in CmdChats, op \in {"api_dict_list", "api_translate"} :
       \E cfg \in CmdConfigs, fails \in BOOLEAN :
         LET lang_pair == LangPair(cfg[1], cfg[2])
         IN  db_last' = [IdleDb EXCEPT !.op = op, !.chat = chat_id,
                          !.l1 = cfg[1], !.l2 = cfg[2], !.lang_pair = lang_pair,
                          !.failed = fails,
                          !.rows = GetTermsResult(dictionary, chat_id, lang_pair, fails)]
  /\ UNCHANGED <<svcVars, handler, tmpVars, ldVars, poolVars, dictVars, inflVars, chatVars>>
  /\ UNCHANGED <<dictionary, settings, exports, now>>

\* Database.create_export(data)
CreateExport ==
  /\ db_last.op = "idle"
  /\ \E data \in ExportData, hex \in HexDraws, fails \in BOOLEAN :
       LET r == CreateExportResult(exports, data, hex, now, fails)
       IN  /\ exports' = r.rows
           /\ db_last' = [IdleDb EXCEPT !.op = "create_export", !.target = data,
                            !.ret = r.ret, !.failed = fails]
  /\ UNCHANGED <<svcVars, handler, tmpVars, ldVars, poolVars, dictVars, inflVars, chatVars>>
  /\ UNCHANGED <<dictionary, settings, now>>

\* Database.get_export(code)
GetExport ==
  /\ db_last.op = "idle"
  /\ \E code \in AskedCodes, fails \in BOOLEAN :
       LET r == GetExportResult(exports, code, now, fails)
       IN  /\ exports' = r.rows
           /\ db_last' = [IdleDb EXCEPT !.op = "get_export", !.code = code,
                            !.ret = r.ret, !.purged = r.purged, !.failed = fails]
  /\ UNCHANGED <<svcVars, handler, tmpVars, ldVars, poolVars, dictVars, inflVars, chatVars>>
  /\ UNCHANGED <<dictionary, settings, now>>

\* time passes between two calls
Tick ==
  /\ db_last.op = "idle"
  /\ now + TickHours <= MaxHours
  /\ now' = now + TickHours
  /\ UNCHANGED <<svcVars, handler, tmpVars, ldVars, poolVars, dictVars, inflVars, chatVars>>
  /\ UNCHANGED <<dictionary, settings, exports, db_last>>

NextExport == CreateExport \/ GetExport \/ Tick \/ ReturnDb

SpecExport == Init /\ [][NextExport]_vars

\* Database.get_languages(chat_id)
GetLanguagesCall ==
  /\ db_last.op = "idle"
  /\ \E chat_id \in CmdChats, fails \in BOOLEAN :
       LET langs == GetLanguages(settings[chat_id], fails)
       IN  db_last' = [IdleDb EXCEPT !.op = "get_languages", !.chat = chat_id,
                        !.l1 = langs[1], !.l2 = langs[2], !.failed = fails]
  /\ UNCHANGED <<svcVars, handler, tmpVars, ldVars, poolVars, dictVars, inflVars, chatVars>>
  /\ UNCHANGED <<dictionary, settings, exports, now>>

\* every method of Database
NextDb ==
  \/ AddTermUpTo(MaxDbRows) \/ RemoveTerm \/ GetTermsCall
  \/ SetLanguages \/ GetLanguagesCall
  \/ CreateExport \/ GetExport
  \/ ReturnDb

SpecDb == Init /\ [][NextDb]_vars

NextCommands ==
  \/ SetLanguages \/ DictAdd \/ ApiAddTerm \/ DictRemove \/ ApiRemoveTerm
  \/ ReadChatTerms \/ ApiReadTerms \/ ReturnDb

SpecCommands == Init /\ [][NextCommands]_vars

SpecTerms == Init /\ [][NextTerms]_vars

SpecInflector == Init /\ [][NextInflector]_vars

SpecDictFault == Init /\ [][NextDictFault]_vars

SpecDict == Init /\ [][NextDict]_vars

NextSpeaker == Synthesize \/ ReturnAudio

SpecSpeaker == Init /\ [][NextSpeaker]_vars

Next == NextTranslate \/ NextAudio

Spec == Init /\ [][Next]_vars

SpecTranslate == Init /\ [][NextTranslate]_vars

\* the provider answers the same call in the same way in both runs
SameBehaviour(calls1, calls2) ==
  \A i \in DOMAIN calls1, j \in DOMAIN calls2 :
    (calls1[i].text = calls2[j].text /\ calls1[i].target = calls2[j].target)
      => calls1[i].out = calls2[j].out

\* a first _translate_sync run on a message and its substituted text
PairFirst ==
  /\ pair = <<>>
  /\ \E o \in PairTexts \ {<<>>}, text \in PairTexts, primary, secondary \in Langs :
       \E probeOut \in ProbeOutcomes(o), finalOut \in FinalOutcomes :
         pair' = <<SyncRecord("_translate_sync", text, Str(o), primary, secondary,
                     TranslateSync(text, primary, secondary, Str(o), probeOut, finalOut))>>
  /\ UNCHANGED <<last, auVars, feVars>>

\* a second run: the same message, languages and provider, another substituted text
PairSecond ==
  /\ Len(pair) = 1
  /\ \E text \in PairTexts \ {pair[1].subst} :
       \E probeOut \in ProbeOutcomes(SampleText(text, pair[1].original)),
          finalOut \in FinalOutcomes :
         LET r == TranslateSync(text, pair[1].primary, pair[1].secondary,
                                pair[1].original, probeOut, finalOut)
         IN  /\ SameBehaviour(pair[1].calls, r.calls)
             /\ pair' = Append(pair, SyncRecord("_translate_sync", text, pair[1].original,
                                       pair[1].primary, pair[1].secondary, r))
  /\ UNCHANGED <<last, auVars, feVars>>

PairReset ==
  /\ Len(pair) = 2
  /\ pair' = <<>>
  /\ UNCHANGED <<last, auVars, feVars>>

NextPair == PairFirst \/ PairSecond \/ PairReset

SpecPair == Init /\ [][NextPair]_vars

-----------------------------------------------------------------------------
(* Properties *)

\* a _translate_sync run has completed (translate_message got past its guard)
RanSync ==
  \/ last.op = "_translate_sync"
  \/ (last.op = "translate_message" /\ last.tasks = 1)

\* the pre-substitution text of a call record
OriginalOf(rec) == IF Truthy(rec.original) THEN rec.original.s ELSE rec.subst

\* a code point of the Unicode Cyrillic block U+0400..U+04FF
IsCyrillicCodePoint(c) == c \in 1024..1279

ProbeCalls(rec) == {i \in DOMAIN rec.calls : rec.calls[i].fn = "probe"}

\* C1: primary in the Cyrillic set and a Cyrillic code point in the original
\* text: no probe, exactly one provider call, on the substituted text toward
\* secondary, and its result is what the call returns
C1_CyrillicSkipsProbe ==
  (/\ RanSync
   /\ last.primary \in cyrillic_langs
   /\ \E i \in DOMAIN OriginalOf(last) : IsCyrillicCodePoint(OriginalOf(last)[i]))
  => /\ ProbeCalls(last) = {}
     /\ Len(last.calls) = 1
     /\ last.calls[1].text = last.subst
     /\ last.calls[1].target = last.secondary
     /\ last.calls[1].out # Raise => last.ret = last.calls[1].out

\* C2: two runs on the same original text, languages and provider behaviour
\* choose the same target whatever the substituted text is; the script check
\* and the probe read the original text
C2_TargetIgnoresSubstitution ==
  Len(pair) = 2 =>
    /\ pair[1].target = pair[2].target
    /\ pair[1].shortcut = pair[2].shortcut
    /\ \A k \in 1..2 : \A i \in ProbeCalls(pair[k]) :
         pair[k].calls[i].text = pair[k].original.s

C2_Witness ==
  /\ Len(pair) = 2
  /\ pair[1].subst # pair[2].subst
  /\ HasCyrillic(pair[1].original.s)
  /\ ~HasCyrillic(pair[2].subst)
  /\ pair[2].target = "en"
  /\ pair[2].primary = "ru"

\* C3: without the shortcut there is exactly one probe, of the original text
\* toward primary; the target is secondary when the probe result is non-empty
\* and equals the original text up to case and surrounding whitespace, and
\* primary otherwise
C3_ProbeDecidesTarget ==
  (RanSync /\ ~last.shortcut) =>
    /\ ProbeCalls(last) = {1}
    /\ last.calls[1].text = OriginalOf(last)
    /\ last.calls[1].target = last.primary
    /\ last.calls[1].out # Raise =>
         last.target =
           IF /\ last.calls[1].out.tag = "str"
              /\ last.calls[1].out.s # <<>>
              /\ Strip(Lower(last.calls[1].out.s)) = Strip(Lower(OriginalOf(last)))
           THEN last.secondary ELSE last.primary

C3_Witness ==
  /\ RanSync /\ ~last.shortcut
  /\ last.calls[1].out.tag = "str"
  /\ last.calls[1].out.s # OriginalOf(last)
  /\ last.target = last.secondary
  /\ last.primary # last.secondary

C5_SubstitutedTextIsTranslated ==
  (last.op = "translate_message" /\ last.tasks = 1) =>
    /\ last.original = Str(last.text)
    /\ \A i \in DOMAIN last.calls :
         last.calls[i].fn = "final" => last.calls[i].text = last.subst
    /\ (Len(last.terms) = 1 /\ Lower(last.text) = last.terms[1][1])
         => last.subst = last.terms[1][2]
    /\ last.terms = <<>> => last.subst = last.text
    /\ last.subst # last.text =>
         \/ last.ret = None
         \/ /\ last.calls # <<>>
            /\ last.calls[Len(last.calls)].fn = "final"
            /\ last.calls[Len(last.calls)].text = last.subst
            /\ last.ret = last.calls[Len(last.calls)].out

C5_Witness ==
  /\ last.op = "translate_message"
  /\ last.subst # last.text
  /\ Truthy(last.ret)
  /\ HasCyrillic(last.text) /\ ~HasCyrillic(last.subst)

\* C6: blank input: null, no store read, no pool task, no provider call
C6_BlankInputShortCircuits ==
  (last.op = "translate_message" /\ \A i \in DOMAIN last.text : IsSpace(last.text[i]))
  => /\ last.ret = None
     /\ last.reads = <<>>
     /\ last.tasks = 0
     /\ last.calls = <<>>

C6_Witness ==
  /\ last.op = "translate_message"
  /\ last.text # <<>>
  /\ \A i \in DOMAIN last.text : IsSpace(last.text[i])
  /\ last.chat # 0


\* C7: no exception leaves translate_message, transcribe_audio or
\* generate_audio, whichever provider call or store read fails; what comes
\* back is null or a result
C7_NothingEscapes ==
  /\ last.op = "translate_message" =>
       (~last.escaped /\ last.ret.tag \in {"none", "str"})
  /\ audio.op \in {"transcribe_audio", "generate_audio"} =>
       (~audio.escaped /\ audio.ret.tag \in {"none", "str"})

C7_Witness ==
  /\ last.op = "translate_message"
  /\ {"get_languages", "get_terms", "probe"} \subseteq last.faults
  /\ last.ret = None
  /\ silero_models # {}

StepsOf(rec, fns) == {i \in DOMAIN rec.steps : rec.steps[i].fn \in fns}

LocalSteps == {"whisper_load", "whisper_transcribe"}

SileroSteps == {"hub_load", "apply_tts", "sf_write", "export"}

\* the multi-speaker synthesizer produced the encoded file
SileroSucceeded(rec) ==
  \E i \in StepsOf(rec, {"export"}) : rec.steps[i].ok

GttsSucceeded(rec) == \E i \in StepsOf(rec, {"gtts"}) : rec.steps[i].ok

\* C10: the multi-speaker synthesizer comes first; when it succeeds the
\* generic one is not called; when it fails, raises or is skipped the generic
\* one is called once; the result is null exactly when all attempts failed
C10_SynthesisFallback ==
  audio.op = "generate_audio" =>
    /\ \A i \in StepsOf(audio, SileroSteps), j \in StepsOf(audio, {"gtts"}) : i < j
    /\ SileroSucceeded(audio) => StepsOf(audio, {"gtts"}) = {}
    /\ ~SileroSucceeded(audio) => Cardinality(StepsOf(audio, {"gtts"})) = 1
    /\ audio.path = "" <=> (~SileroSucceeded(audio) /\ ~GttsSucceeded(audio))

C10_Witness ==
  /\ audio.op = "generate_audio"
  /\ StepsOf(audio, {"apply_tts"}) # {}
  /\ ~SileroSucceeded(audio)
  /\ audio.path = GttsMp3

\* the language codes the multi-speaker synthesizer has a model for
InSileroTable(lang) == LowerCode(lang) \in {"ru", "uk", "ua", "en"}

\* C11: a language outside the multi-speaker table: no model is loaded or
\* cached, nothing is synthesized, no temp file of that provider is written,
\* and the generic synthesizer is tried once with the language code
C11_UnsupportedLanguageSkipsSilero ==
  (audio.op = "generate_audio" /\ ~InSileroTable(audio.lang)) =>
    /\ StepsOf(audio, SileroSteps) = {}
    /\ silero_models = audio.cached
    /\ audio.files \cap {WavFile, SileroMp3} = {}
    /\ Len(audio.steps) = 1
    /\ audio.steps[1].fn = "gtts"
    /\ audio.steps[1].arg = audio.lang

C11_Witness ==
  /\ audio.op = "generate_audio"
  /\ ~InSileroTable(audio.lang)
  /\ audio.cached # {}
  /\ audio.path = GttsMp3

\* C13: once _generate_audio_silero_sync has written the intermediate WAV
\* file, the file is gone when the call returns, whether the mp3 export
\* succeeded or raised
C13_WavFileRemoved ==
  (/\ audio.op = "generate_audio"
   /\ \E i \in StepsOf(audio, {"sf_write"}) : audio.steps[i].ok)
  => WavFile \notin audio.files

C16_EncodedFileRemoved ==
  handler.op \in {"tts_callback", "voice_test", "text_to_speech"} => handler.files = {}

C17_ConstructedOnce == \A m \in LazyModels : constructed[m] <= 1

\* C18: the store reads, the substitution, the direction resolution and the
\* provider calls of a translate request all run inside its one pool task;
\* none of them runs on the event-loop thread
C18_AllWorkInPoolTask ==
  (last.op = "translate_message" /\ last.tasks = 1) =>
    /\ last.on_loop = {}
    /\ {last.reads[i][1] : i \in DOMAIN last.reads} \cup {"substitute", "direction"}
         \subseteq last.in_pool

OccursIn(text, source) == \E i \in DOMAIN text : MatchAt(text, i, source)

\* the run has two rows, k the shorter one, which occurs as a whole word
\* inside the other; the text contains the longer one
NestedTerms(run, k) ==
  /\ run.ran /\ Len(run.terms) = 2 /\ k \in 1..2
  /\ Len(run.terms[k][1]) < Len(run.terms[3 - k][1])
  /\ OccursIn(run.terms[3 - k][1], run.terms[k][1])
  /\ OccursIn(run.text, run.terms[3 - k][1])

\* C20: with a shorter term nested as a whole word in a longer one and the
\* longer one in the text, the longer one is replaced by its target and the
\* shorter one is applied only to what is left, whichever row comes first
C20_LongestTermFirst ==
  \A k \in 1..2 :
    NestedTerms(subst_run, k) =>
      LET S == subst_run.terms[k]
          L == subst_run.terms[3 - k]
          afterL == PatternSub(subst_run.text, L[1], L[2])
      IN  /\ subst_run.out = PatternSub(afterL, S[1], S[2])
          /\ OccursIn(subst_run.out, L[2])
          /\ ~OccursIn(subst_run.out, L[1])

C20_Witness ==
  /\ NestedTerms(subst_run, 1)
  /\ subst_run.terms[1][2] # subst_run.terms[2][2]
  /\ OccursIn(subst_run.out, subst_run.terms[1][2])
  /\ OccursIn(subst_run.out, subst_run.terms[2][2])

-----------------------------------------------------------------------------
\* the rows of a run whose pattern did not raise, in the order get_terms gave
KeptTerms(run) == SelectSeq(run.terms, LAMBDA t : t[1] \notin run.raising)

\* C21: when the pattern of a stored term raises, that term alone is skipped:
\* no exception leaves the substitution and the text returned is the text
\* rewritten by the remaining terms, longest source first.
C21_RaisingTermSkipped ==
  (subst_run.ran /\ subst_run.raising # {}) =>
    /\ ~subst_run.escaped
    /\ subst_run.out =
         ApplyTerms(subst_run.text,
                    SortByLen(KeptTerms(subst_run), MaxSourceLen(KeptTerms(subst_run))))

\* a raising term that occurs in the text, and another term that rewrote it
C21_Witness ==
  /\ subst_run.ran
  /\ \E i \in DOMAIN subst_run.terms :
       /\ subst_run.terms[i][1] \in subst_run.raising
       /\ OccursIn(subst_run.text, subst_run.terms[i][1])
       /\ OccursIn(subst_run.out, subst_run.terms[i][1])
  /\ \E i \in DOMAIN subst_run.terms :
       /\ subst_run.terms[i][1] \notin subst_run.raising
       /\ OccursIn(subst_run.text, subst_run.terms[i][1])
       /\ OccursIn(subst_run.out, subst_run.terms[i][2])

-----------------------------------------------------------------------------
\* a get_variations call has returned or raised
RanVariations == variations_run.op = "get_variations"

\* C25: get_variations is total: no input string makes it raise.
C25_VariationsTotal == RanVariations => variations_run.ret.tag # "raise"

\* C26: every non-empty word, with or without surrounding whitespace, is an
\* element of its own variations.
C26_WordIsOwnVariation ==
  (RanVariations /\ variations_run.word # <<>>) =>
    /\ variations_run.ret.tag = "set"
    /\ variations_run.word \in variations_run.ret.v

\* the rule table: the forms assigned to the class of the final character
TableForms(word) ==
  LET ending == LowerChar(word[Len(word)])
      stem == SubSeq(word, 1, Len(word) - 1)
  IN  IF ending \in Consonants
      THEN {word \o <<1072>>, word \o <<1091>>, word \o <<1086, 1084>>, word \o <<1077>>}
      ELSE IF ending = 1081
      THEN {stem \o <<1103>>, stem \o <<1102>>, stem \o <<1077, 1084>>,
            stem \o <<1077>>, stem \o <<1080>>}
      ELSE IF ending = 1072
      THEN {stem \o <<1099>>, stem \o <<1077>>, stem \o <<1091>>, stem \o <<1086, 1081>>}
      ELSE IF ending = 1103 /\ stem # <<>> /\ LowerChar(stem[Len(stem)]) = 1080
      THEN {stem \o <<1080>>, stem \o <<1102>>, stem \o <<1077, 1081>>}
      ELSE IF ending = 1103
      THEN {stem \o <<1080>>, stem \o <<1077>>, stem \o <<1102>>,
            stem \o <<1077, 1081>>, stem \o <<1105, 1081>>}
      ELSE IF ending = 1100
      THEN {stem \o <<1103>>, stem \o <<1102>>, stem \o <<1077, 1084>>,
            stem \o <<1077>>, stem \o <<1080>>, word \o <<1102>>}
      ELSE {}

\* C27: the variations of a word are exactly the word and the forms of the
\* rule table for its final character; the empty string has none.
C27_VariationsFollowTable ==
  RanVariations =>
    /\ variations_run.ret.tag = "set"
    /\ variations_run.ret.v =
         IF variations_run.word = <<>> THEN {}
         ELSE {variations_run.word} \cup TableForms(variations_run.word)

-----------------------------------------------------------------------------
\* a text with no whitespace at either end
Trimmed(text) == text = <<>> \/ (~IsSpace(text[1]) /\ ~IsSpace(text[Len(text)]))

\* C22: every stored row has a source that is non-empty, trimmed and
\* lowercased, and a target that is non-empty, trimmed and in the letter case
\* it was given in; an add_term whose source or target is empty after
\* trimming returns false and stores nothing.
C22_StoredRowsNormalised ==
  /\ [](\A r \in dictionary :
          /\ r[3] # <<>> /\ Trimmed(r[3]) /\ r[3] = Lower(r[3])
          /\ r[4] # <<>> /\ Trimmed(r[4]))
  /\ [][db_last'.op = "add_term" =>
          /\ (db_last'.ok =>
                \E r \in dictionary' :
                  /\ Lower(r[3]) = Lower(LStrip(RStrip(db_last'.source)))
                  /\ r[4] = LStrip(RStrip(db_last'.target)))
          /\ ((Strip(db_last'.source) = <<>> \/ Strip(db_last'.target) = <<>>) =>
                ~db_last'.ok /\ dictionary' = dictionary)]_vars

\* an upper-case source with a blank before it, and a lower-case target with a
\* blank after it, stored
C22_Witness ==
  /\ db_last.op = "add_term" /\ db_last.ok
  /\ <<db_last.chat, NormPair(db_last.lang_pair), <<97>>, <<120>>>> \in dictionary
  /\ db_last.source # <<97>> /\ db_last.target = <<120, 32>>
  /\ \E r \in dictionary : r[4] = <<88>>

\* C23: at most one row exists per (chat_id, lang_pair, source_term); an
\* add_term on an existing key replaces the target of that row and leaves
\* every other row as it was.
C23_OneRowPerKey ==
  /\ [](\A r, q \in dictionary : RowKey(r) = RowKey(q) => r = q)
  /\ [][(db_last'.op = "add_term" /\ db_last'.ok) =>
          LET key == <<db_last'.chat, NormPair(db_last'.lang_pair),
                       Lower(Strip(db_last'.source))>>
          IN  /\ {r \in dictionary' : RowKey(r) # key} = {r \in dictionary : RowKey(r) # key}
              /\ {r \in dictionary' : RowKey(r) = key} = {key \o <<Strip(db_last'.target)>>}]_vars

\* a row replaced while a row of another chat and a row of another lang_pair
\* with the same source are stored
C23_Witness ==
  /\ db_last.op = "add_term" /\ db_last.replaced
  /\ \E r, q \in dictionary :
       /\ r[1] # db_last.chat /\ r[3] = SourceLower(db_last.source)
       /\ q[1] = db_last.chat /\ q[2] # NormPair(db_last.lang_pair)
       /\ q[3] = SourceLower(db_last.source)

-----------------------------------------------------------------------------
\* the sites that scope the dictionary by a lang_pair
AddSites == {"dict_add", "api_dict_add"}
RemoveSites == {"dict_remove", "api_dict_remove"}
ReadSites == {"dict_list", "translate_message", "api_dict_list", "api_translate"}

\* what the chat sees of its dictionary under the codes it is configured with
ChatTerms(rows, cfg, chat_id) ==
  LET langs == GetLanguages(cfg[chat_id], FALSE)
  IN  GetTermsResult(rows, chat_id, LangPair(langs[1], langs[2]), FALSE)

\* C24: the scope key does not depend on the order of the two codes: every
\* site that started from (l1, l2) reads and writes the rows of the key that
\* (l2, l1) gives, and reconfiguring a chat from (a, b) to (b, a) leaves the
\* terms it sees unchanged.
C24_ScopeKeyIgnoresOrder ==
  /\ [](db_last.op \in AddSites \cup RemoveSites \cup ReadSites =>
          LET reversed == LangPair(db_last.l2, db_last.l1)
          IN  /\ db_last.lang_pair = reversed
              /\ (db_last.op \in ReadSites /\ ~db_last.failed) =>
                    db_last.rows = GetTermsResult(dictionary, db_last.chat, reversed, FALSE)
              /\ (db_last.op \in AddSites /\ db_last.count > 0) =>
                    \E r \in dictionary :
                      /\ r[1] = db_last.chat /\ r[2] = reversed
                      /\ r[4] = Strip(db_last.target)
              /\ (db_last.op \in RemoveSites /\ db_last.ok) =>
                    \A r \in dictionary :
                      RowKey(r) # <<db_last.chat, reversed, Lower(Strip(db_last.source))>>)
  /\ [][\A c \in CmdChats :
          (settings[c] # <<>> /\ settings'[c] = <<settings[c][2], settings[c][1]>>) =>
            ChatTerms(dictionary', settings', c) = ChatTerms(dictionary, settings, c)]_vars

\* a chat configured (uk, ru) lists the terms stored under ru-uk
C24_Witness ==
  /\ db_last.op = "dict_list" /\ ~db_last.failed
  /\ db_last.l1 = "uk" /\ db_last.l2 = "ru"
  /\ db_last.rows # {}
  /\ \E r \in dictionary : r[2] = <<"en", "ru">>

\* C28: after a dict add that reports success the literal source term,
\* lowercased and trimmed, is a row of the chat's dictionary for the
\* lang_pair, with the target, and so is every variation of the source.
C28_LiteralTermStored ==
  (db_last.op \in AddSites /\ db_last.reply \in {"Added", "ok"}) =>
    LET variations == GetVariations(db_last.source)
    IN  /\ <<db_last.chat, db_last.lang_pair, Lower(Strip(db_last.source)),
              Strip(db_last.target)>> \in dictionary
        /\ \A v \in variations.v :
              <<db_last.chat, db_last.lang_pair, Lower(v), Strip(db_last.target)>>
                \in dictionary

-----------------------------------------------------------------------------
\* DICT- followed by six characters of [A-Z0-9]
WellFormedCode(code) ==
  /\ Len(code) = Len(CodePrefix) + 6
  /\ SubSeq(code, 1, Len(CodePrefix)) = CodePrefix
  /\ \A i \in (Len(CodePrefix) + 1)..Len(code) : code[i] \in (48..57) \cup (65..90)

\* the same code up to letter case
SameCode(a, b) == Len(a) = Len(b) /\ \A i \in DOMAIN a : LowerChar(a[i]) = LowerChar(b[i])

\* C29: create_export returns a well-formed code and stores the data under
\* it; a stored export leaves the table only when it is older than 24 hours;
\* get_export, for any letter case of the code, returns the data of an export
\* younger than 24 hours and null for one older than 24 hours.
C29_ExportRoundTrip ==
  /\ [][(db_last'.op = "create_export" /\ db_last'.ret.tag = "str") =>
          /\ WellFormedCode(db_last'.ret.s)
          /\ exports' = exports \cup {ExportRow(db_last'.ret.s, db_last'.target, now)}
          /\ \A r \in exports : r.code # db_last'.ret.s]_vars
  /\ [][\A r \in exports \ exports' : now - r.created_at > export_ttl]_vars
  /\ [][(db_last'.op = "get_export" /\ ~db_last'.failed) =>
          \A r \in exports :
            SameCode(r.code, db_last'.code) =>
              /\ now - r.created_at < export_ttl => db_last'.ret = Str(r.data)
              /\ now - r.created_at > export_ttl => db_last'.ret = None]_vars

\* an export younger than 24 hours read back under a lower-case code by the
\* call that purged an older one
C29_Witness ==
  /\ db_last.op = "get_export" /\ db_last.ret.tag = "str"
  /\ db_last.code # Upper(db_last.code)
  /\ db_last.purged # {}
  /\ \E r \in exports :
       /\ r.code = Upper(db_last.code) /\ r.data = db_last.ret.s
       /\ now > r.created_at /\ now - r.created_at < export_ttl

-----------------------------------------------------------------------------
\* C30: a store failure inside a Database method is absorbed there: the call
\* returns its default (no terms, (ru, en), null, false) and the tables are
\* as they were before it.
C30_StoreFailureAbsorbed ==
  [][db_last'.failed =>
       /\ dictionary' = dictionary /\ settings' = settings /\ exports' = exports
       /\ db_last'.op = "get_terms" => db_last'.rows = {}
       /\ db_last'.op = "get_languages" => <<db_last'.l1, db_last'.l2>> = <<"ru", "en">>
       /\ db_last'.op \in {"get_export", "create_export"} => db_last'.ret = None
       /\ db_last'.op \in {"add_term", "remove_term", "set_languages"} => ~db_last'.ok]_vars

\* a failed get_terms for a chat that has a term stored, while the chat is
\* configured away from the default and an export is stored
C30_Witness ==
  /\ db_last.op = "get_terms" /\ db_last.failed /\ db_last.rows = {}
  /\ GetTermsResult(dictionary, db_last.chat, db_last.lang_pair, FALSE) # {}
  /\ \E c \in CmdChats : settings[c] = <<"uk", "ru">>
  /\ exports # {}

-----------------------------------------------------------------------------
(* _translate_sync: a null result and the provider calls *)

\* every provider call the run issued returned a text: none raised, none
\* returned None
ProvidersAnswered(rec) ==
  \A i \in DOMAIN rec.calls : rec.calls[i].out \notin {Raise, None}

\* C36: a _translate_sync run whose provider calls all returned a text gives a
\* non-null result, for every language pair (primary equal to secondary
\* included) and every text
C36_NullOnlyOnProviderFailure ==
  (RanSync /\ ProvidersAnswered(last)) => last.ret # None

-----------------------------------------------------------------------------
(* _apply_custom_dictionary: targets that other terms match *)

\* rows whose target may itself be a stored source: 'a', 'я', or the letter 'X'
ChainSources == {<<97>>, <<1103>>, <<97, 32, 97>>}
ChainTargets == {<<97>>, <<1103>>, <<88>>}
ChainTexts == SeqsUpTo({32, 97, 1103}, MaxFaultLen)
ChainRows ==
  {ts \in SeqsUpTo(ChainSources \X ChainTargets, MaxRows) :
     \A i, j \in DOMAIN ts : i # j => ts[i][1] # ts[j][1]}

\* _apply_custom_dictionary(text, chat_id, lang_pair) on such rows
SubstituteChained ==
  /\ subst_run = IdleRun
  /\ \E text \in ChainTexts, terms \in ChainRows :
       subst_run' = [text |-> text, terms |-> terms, ran |-> TRUE,
                     raising |-> {}, escaped |-> FALSE,
                     out |-> ApplyCustomDictionary(text, TRUE, 1, "en-ru", terms).text]
  /\ UNCHANGED <<svcVars, handler, tmpVars, ldVars, poolVars, extVars>>

NextDictChain == SubstituteChained \/ ReturnSubstitute

SpecDictChain == Init /\ [][NextDictChain]_vars

\* the matches of term k on the original text, leftmost first, that touch no
\* position an earlier term has taken.  taken: records [at, term]
Covered(terms, taken) ==
  UNION {r.at..(r.at + Len(terms[r.term][1]) - 1) : r \in taken}

RECURSIVE ClaimFrom(_, _, _, _, _)
ClaimFrom(text, terms, k, i, taken) ==
  IF i > Len(text) THEN taken
  ELSE IF /\ MatchAt(text, i, terms[k][1])
          /\ (i..(i + Len(terms[k][1]) - 1)) \cap Covered(terms, taken) = {}
       THEN ClaimFrom(text, terms, k, i + Len(terms[k][1]),
                      taken \cup {[at |-> i, term |-> k]})
       ELSE ClaimFrom(text, terms, k, i + 1, taken)

RECURSIVE ClaimAll(_, _, _, _)
ClaimAll(text, terms, k, taken) ==
  IF k > Len(terms) THEN taken
  ELSE ClaimAll(text, terms, k + 1, ClaimFrom(text, terms, k, 1, taken))

\* the original text with every taken match replaced by its term's target
RECURSIVE Emit(_, _, _, _)
Emit(text, terms, taken, i) ==
  IF i > Len(text) THEN <<>>
  ELSE IF \E r \in taken : r.at = i
       THEN LET r == CHOOSE r \in taken : r.at = i
            IN  terms[r.term][2] \o Emit(text, terms, taken, i + Len(terms[r.term][1]))
       ELSE <<text[i]>> \o Emit(text, terms, taken, i + 1)

\* one simultaneous pass over the original text, longest source first: every
\* match is found on the original text and inserted targets are never read
SinglePass(text, terms) ==
  LET sorted == SortByLen(terms, MaxSourceLen(terms))
  IN  Emit(text, sorted, ClaimAll(text, sorted, 1, {}), 1)

\* C37: the text a substitution returns equals one simultaneous longest-first
\* pass over the original text: a target, once inserted, is not rewritten by
\* another term of the same call
C37_ReplacementIsFinal ==
  subst_run.ran => subst_run.out = SinglePass(subst_run.text, subst_run.terms)

-----------------------------------------------------------------------------
(* /dict remove after /dict add *)

\* the key of the row a /dict add or /dict remove of the recorded word names
WordKey(rec) == <<rec.chat, LangPair(rec.l1, rec.l2), Lower(Strip(rec.source))>>

\* the rows /dict add writes for the variations of the word, the word's own
\* row left out
VariantRows(chat_id, l1, l2, source, target) ==
  {<<chat_id, LangPair(l1, l2), Lower(v), Strip(target)>> :
     v \in {u \in GetVariations(source).v : Lower(u) # Lower(Strip(source))}}

\* /dict add source target and then /dict remove source, the store working
AddThenRemove(rows, chat_id, l1, l2, source, target) ==
  LET added == DictAddResult(rows, chat_id, l1, l2, source, target, {})
  IN  [reply |-> added.reply,
       rows |-> RemoveTermResult(added.rows, chat_id, source, added.lang_pair, FALSE).rows]

\* a /dict remove takes away the row of the word, if there is one and the
\* store works, and no other row
RemoveTakesOneRow ==
  [][db_last'.op = "dict_remove" =>
       LET hit == {r \in dictionary : RowKey(r) = WordKey(db_last')}
       IN  /\ Cardinality(hit) <= 1
           /\ dictionary' = IF db_last'.failed THEN dictionary ELSE dictionary \ hit
           /\ (db_last'.reply = "Removed") <=> (hit # {} /\ ~db_last'.failed)]_vars

\* the statement as worded: a successful add followed by remove of the same
\* word gives back the previous dictionary only when get_variations of the
\* word is a single element
C38_RestoredOnlyWhenSingle ==
  /\ RemoveTakesOneRow
  /\ [](\A c \in CmdChats, source \in CmdSources, target \in CmdTargets :
          LET langs == GetLanguages(settings[c], FALSE)
              r == AddThenRemove(dictionary, c, langs[1], langs[2], source, target)
          IN  (r.reply = "Added" /\ r.rows = dictionary) =>
                Cardinality(GetVariations(source).v) = 1)

\* C38: /dict remove w deletes exactly the row whose source is lower(trim(w))
\* under the chat's lang_pair and leaves the variant rows of /dict add w; a
\* successful add followed by remove of the same word gives back the previous
\* dictionary exactly when w was not stored before and every variant row the
\* add writes was already stored with that target
C38_RemoveLeavesVariants ==
  /\ RemoveTakesOneRow
  /\ [](\A c \in CmdChats, source \in CmdSources, target \in CmdTargets :
          LET langs == GetLanguages(settings[c], FALSE)
              r == AddThenRemove(dictionary, c, langs[1], langs[2], source, target)
              key == <<c, LangPair(langs[1], langs[2]), Lower(Strip(source))>>
              variants == VariantRows(c, langs[1], langs[2], source, target)
          IN  r.reply = "Added" =>
                /\ variants \subseteq r.rows
                /\ (r.rows = dictionary) <=>
                     /\ \A q \in dictionary : RowKey(q) # key
                     /\ variants \subseteq dictionary)

\* a /dict remove of ' Н' answered Removed and the rows of 'на', 'ну', 'ном',
\* 'не' that /dict add wrote for the word are still stored
C38_Witness ==
  /\ db_last.op = "dict_remove" /\ db_last.reply = "Removed"
  /\ Cardinality(GetVariations(db_last.source).v) > 1
  /\ VariantRows(db_last.chat, db_last.l1, db_last.l2, db_last.source, <<88>>)
       \subseteq dictionary
  /\ \A q \in dictionary : RowKey(q) # WordKey(db_last)

-----------------------------------------------------------------------------
(* /clean *)

\* the ids of the command message and the arguments of the runs checked
MaxMessageId == 205
CleanIds == {1, 3, MaxMessageId}
CleanArgs == {NoArg, BadArg, IntArg(0), IntArg(2), IntArg(max_target + 10)}

\* lines 227-255: the command message is deleted (or the failure is logged),
\* target_count is read, the counters start at 0
CleanStart ==
  /\ clean.pc = "idle"
  /\ \E current_id \in CleanIds, arg \in CleanArgs, deleted \in BOOLEAN :
       clean' = [IdleClean EXCEPT !.pc = "loop", !.current_id = current_id,
                                  !.target_count = TargetCount(arg), !.i = 1,
                                  !.cmd_deleted = deleted]
  /\ UNCHANGED <<svcVars, handler, tmpVars, ldVars, poolVars, dictVars, dbVars, inflVars, botVars>>

\* one pass of the loop body, lines 258-276, that reaches delete_message
CleanAttempt ==
  /\ clean.pc = "loop"
  /\ CleanGoesOn(clean)
  /\ \E ok \in BOOLEAN :
       clean' = [clean EXCEPT !.scanned_count = @ + 1,
                              !.target_id = clean.current_id - clean.i,
                              !.attempts = @ + 1,
                              !.deleted_count = IF ok THEN @ + 1 ELSE @,
                              !.i = @ + 1]
  /\ UNCHANGED <<svcVars, handler, tmpVars, ldVars, poolVars, dictVars, dbVars, inflVars, botVars>>

\* the loop ends: the range is exhausted, or a break at line 261 or line 266
\* (which comes after scanned_count += 1)
CleanFinish ==
  /\ clean.pc = "loop"
  /\ ~CleanGoesOn(clean)
  /\ clean' = [clean EXCEPT !.pc = "done",
                            !.scanned_count =
                               IF clean.i <= scan_limit
                                  /\ clean.deleted_count < clean.target_count
                               THEN @ + 1 ELSE @]
  /\ UNCHANGED <<svcVars, handler, tmpVars, ldVars, poolVars, dictVars, dbVars, inflVars, botVars>>

CleanReturn ==
  /\ clean.pc = "done"
  /\ clean' = IdleClean
  /\ UNCHANGED <<svcVars, handler, tmpVars, ldVars, poolVars, dictVars, dbVars, inflVars, botVars>>

NextClean == CleanStart \/ CleanAttempt \/ CleanFinish \/ CleanReturn

\* the event loop resumes the coroutine after every await
SpecClean ==
  /\ Init /\ [][NextClean]_vars
  /\ WF_vars(CleanAttempt) /\ WF_vars(CleanFinish)

-----------------------------------------------------------------------------
(* The text and voice handlers and the chat's mode *)

\* the calls a handler record holds
Called(rec) == {rec.steps[i].fn : i \in DOMAIN rec.steps}

\* C31: a handle_message or handle_voice run that read mode off or manual made
\* no translate_message or transcribe_audio call, fetched and downloaded no
\* file, stored no pending text and sent no reply: it made no call at all and
\* left no file
C31_OffAndManualIgnore ==
  (handler.op \in {"handle_message", "handle_voice"} /\ handler.mode \in {"off", "manual"})
    => /\ Called(handler) = {}
       /\ handler.steps = <<>>
       /\ ~handler.created /\ handler.files = {} /\ handler.path = <<>>
       /\ ~handler.raised

\* a text message read in mode manual
C31_Witness ==
  /\ handler.op = "handle_message"
  /\ handler.mode = "manual"
  /\ handler.chat = 2

-----------------------------------------------------------------------------
(* One chat with the bot: the mode commands, messages, the Translate button *)

\* the placeholders a behaviour sends; the texts of the messages
MaxSent == 1
BotChats == {1}
ChatTexts == {<<32>>, <<97>>, <<1103>>}
ChatTranslations == {None, Str(<<97>>)}
ChatTranscriptions == {None, Str(<<97>>)}

\* the record of a mode command: the mode it asked for, what set_mode
\* returned, the refresh of the command list (start only) and the reply
ModeCommandResult(op, chat, mode, ok, replyOk) ==
  [IdleHandler EXCEPT !.op = op, !.chat = chat, !.mode = mode,
                      !.steps = <<Step("set_mode", mode, TRUE),
                                  Step("reply_text", IF op = "start_command" \/ ok
                                                     THEN "done" ELSE "failed", replyOk)>>,
                      !.raised = ~replyOk]

\* /start: set_mode(chat, "auto"), its result unused
StartCommand ==
  /\ handler = IdleHandler
  /\ \E chat \in BotChats, fails, replyOk \in BOOLEAN :
       LET r == SetModeResult(chat_mode, chat, "auto", fails)
       IN  /\ chat_mode' = r.rows
           /\ stopped' = stopped \ {chat}
           /\ handler' = ModeCommandResult("start_command", chat, "auto", r.ok, replyOk)
  /\ UNCHANGED <<svcVars, tmpVars, ldVars, poolVars, dictVars, dbVars, inflVars>>
  /\ UNCHANGED <<clean, transcriptions, sent>>

\* /stop: set_mode(chat, "off")
StopCommand ==
  /\ handler = IdleHandler
  /\ \E chat \in BotChats, fails, replyOk \in BOOLEAN :
       LET r == SetModeResult(chat_mode, chat, "off", fails)
       IN  /\ chat_mode' = r.rows
           /\ stopped' = IF r.ok THEN stopped \cup {chat} ELSE stopped
           /\ handler' = ModeCommandResult("stop_command", chat, "off", r.ok, replyOk)
  /\ UNCHANGED <<svcVars, tmpVars, ldVars, poolVars, dictVars, dbVars, inflVars>>
  /\ UNCHANGED <<clean, transcriptions, sent>>

\* /mute: set_mode(chat, "interactive")
MuteCommand ==
  /\ handler = IdleHandler
  /\ \E chat \in BotChats, fails, replyOk \in BOOLEAN :
       LET r == SetModeResult(chat_mode, chat, "interactive", fails)
       IN  /\ chat_mode' = r.rows
           /\ stopped' = stopped \ {chat}
           /\ handler' = ModeCommandResult("mute_command", chat, "interactive", r.ok,
                                           replyOk)
  /\ UNCHANGED <<svcVars, tmpVars, ldVars, poolVars, dictVars, dbVars, inflVars>>
  /\ UNCHANGED <<clean, transcriptions, sent>>

\* the handler stored a pending text: its placeholder went out
Placed(rec) == \E i \in DOMAIN rec.steps : rec.steps[i].fn = "add_transcription"

\* the key and text handle_message passed to add_transcription
PendingOf(rec) ==
  rec.steps[CHOOSE i \in DOMAIN rec.steps : rec.steps[i].fn = "add_transcription"].arg

\* a text message in the chat: handle_message with the stored mode and
\* languages; the placeholder gets the next message id
ChatMessage ==
  /\ handler = IdleHandler
  /\ \E chat \in BotChats, text \in ChatTexts, translation \in ChatTranslations,
        replyOk \in BOOLEAN :
       LET langs == GetLanguages(settings[chat], FALSE)
           id == Len(sent) + 1
           h == HandleMessageResult(chat, GetMode(chat_mode[chat]), text, langs[1],
                                    langs[2], id, translation, replyOk)
       IN  /\ Placed(h) => Len(sent) < MaxSent
           /\ handler' = h
           /\ sent' = IF Placed(h)
                      THEN Append(sent, SentMessage(chat, FALSE, Str(text),
                                                    ButtonTarget(text, langs[1], langs[2])))
                      ELSE sent
           /\ transcriptions' = IF Placed(h)
                                THEN AddTranscription(transcriptions, PendingOf(h).key,
                                                      PendingOf(h).text)
                                ELSE transcriptions
  /\ UNCHANGED <<svcVars, tmpVars, ldVars, poolVars, dictVars, dbVars, inflVars>>
  /\ UNCHANGED <<clean, chat_mode, stopped>>

\* a voice message in the chat: handle_voice with the stored mode
ChatVoice ==
  /\ handler = IdleHandler
  /\ \E chat \in BotChats, getOk, replyOk \in BOOLEAN,
        transcription \in ChatTranscriptions, translation \in ChatTranslations :
       LET id == Len(sent) + 1
           h == HandleVoiceResult(chat, GetMode(chat_mode[chat]), 1, getOk, TRUE, FALSE,
                                  transcription, translation, replyOk)
       IN  /\ Placed(h) => Len(sent) < MaxSent
           /\ handler' = h
           /\ sent' = IF Placed(h)
                      THEN Append(sent, SentMessage(chat, TRUE, None, ""))
                      ELSE sent
           /\ transcriptions' = IF Placed(h)
                                THEN AddTranscription(transcriptions, <<chat, id>>,
                                                      transcription.s)
                                ELSE transcriptions
  /\ UNCHANGED <<svcVars, tmpVars, ldVars, poolVars, dictVars, dbVars, inflVars>>
  /\ UNCHANGED <<clean, chat_mode, stopped>>

\* a button of a placeholder is pressed: translate_callback.  gone: the
\* message the placeholder answers has been deleted
TranslateCallback ==
  /\ handler = IdleHandler
  /\ \E id \in DOMAIN sent, action \in {"transcribe_this", "translate_this"},
        gone \in BOOLEAN :
       LET m == IF gone THEN [sent[id] EXCEPT !.reply_to = None] ELSE sent[id]
           stored == GetTranscription(transcriptions, <<m.chat, id>>)
           use == TextToUse(m, stored)
       IN  /\ m.open
           /\ action = "transcribe_this" => m.voice /\ m.shown = None
           /\ \E probeOut \in ProbeOutcomes(use.text), finalOut \in FinalOutcomes :
                LET tr == TranslateMessageResult(use.text, TRUE, m.chat, settings[m.chat],
                                                 <<>>, FALSE, FALSE, probeOut, finalOut)
                IN  handler' = TranslateCallbackResult(m.chat, id, m, action, stored, tr)
           /\ sent' = [sent EXCEPT ![id] =
                         IF use.found /\ action = "transcribe_this"
                         THEN [m EXCEPT !.shown = Str(use.text)]
                         ELSE [m EXCEPT !.open = FALSE]]
  /\ UNCHANGED <<svcVars, tmpVars, ldVars, poolVars, dictVars, dbVars, inflVars>>
  /\ UNCHANGED <<clean, chat_mode, transcriptions, stopped>>

\* the front end drops a pending text
ExpireTranscription ==
  /\ handler = IdleHandler
  /\ \E r \in transcriptions : transcriptions' = transcriptions \ {r}
  /\ UNCHANGED <<svcVars, handler, tmpVars, ldVars, poolVars, dictVars, dbVars, inflVars>>
  /\ UNCHANGED <<clean, chat_mode, sent, stopped>>

\* /lang set l1 l2 with two supported codes
LangCommand ==
  /\ handler = IdleHandler
  /\ \E chat \in BotChats, cfg \in CmdConfigs, fails, replyOk \in BOOLEAN :
       LET r == SetLanguagesResult(settings, chat, cfg[1], cfg[2], fails)
       IN  /\ settings' = r.rows
           /\ handler' = [IdleHandler EXCEPT !.op = "lang_command", !.chat = chat,
                             !.steps = <<Step("set_languages", cfg, TRUE),
                                         Step("reply_text", IF r.ok THEN "set" ELSE "failed",
                                              replyOk)>>,
                             !.raised = ~replyOk]
  /\ UNCHANGED <<svcVars, tmpVars, ldVars, poolVars, dictVars, inflVars, chatVars>>
  /\ UNCHANGED <<dictionary, exports, now, db_last>>

NextChat ==
  \/ StartCommand \/ StopCommand \/ MuteCommand
  \/ ChatMessage \/ ChatVoice \/ TranslateCallback \/ ExpireTranscription
  \/ LangCommand \/ ReturnHandler

SpecChat == Init /\ [][NextChat]_vars

-----------------------------------------------------------------------------
(* Interactive mode: the placeholder and its button *)

RepliesOf(rec) == {i \in DOMAIN rec.steps : rec.steps[i].fn = "reply_text"}

\* what an interactive handle_message run does when it answers: no
\* translate_message call, one reply, the "..." placeholder with a
\* translate_this button, and, once that reply is out, the message text stored
\* under chat_id:message_id of the placeholder just sent
AnswersWithPlaceholder ==
  /\ "translate_message" \notin Called(handler)
  /\ Cardinality(RepliesOf(handler)) = 1
  /\ \A i \in RepliesOf(handler) :
       /\ handler.steps[i].arg.text = "..."
       /\ handler.steps[i].arg.callback_data = "translate_this"
       /\ handler.steps[i].ok =>
            /\ Placed(handler)
            /\ sent # <<>>
            /\ PendingOf(handler) = [key |-> <<handler.chat, Len(sent)>>,
                                     text |-> handler.text]
            /\ GetTranscription(transcriptions, <<handler.chat, Len(sent)>>)
                 = Str(handler.text)
            /\ sent[Len(sent)].original = Str(handler.text)

\* the translate_message calls of a translate_callback run on a placeholder of
\* a text message are made on the text that message had
CallbackTranslatesStored ==
  handler.op = "translate_callback" =>
    \A i \in DOMAIN handler.steps :
      (handler.steps[i].fn = "translate_message" /\ ~sent[handler.steps[1].arg[2]].voice)
        => Str(handler.steps[i].arg.text) = sent[handler.steps[1].arg[2]].original

\* the statement as worded: every handle_message run in interactive mode
\* answers with the placeholder
C32_AlwaysPlaceholder ==
  /\ (handler.op = "handle_message" /\ handler.mode = "interactive")
       => AnswersWithPlaceholder
  /\ CallbackTranslatesStored

\* C32: in interactive mode handle_message never calls translate_message; for
\* a text with a word character it sends exactly one placeholder reply with a
\* translate_this button and stores the text under chat_id:message_id of that
\* placeholder; for a text without one it does nothing; a later translate_this
\* callback on the placeholder translates exactly that text
C32_InteractivePlaceholder ==
  /\ (handler.op = "handle_message" /\ handler.mode = "interactive") =>
       IF HasWord(handler.text) THEN AnswersWithPlaceholder
       ELSE handler.steps = <<>> /\ ~handler.raised
  /\ CallbackTranslatesStored

\* the Translate button of the placeholder of the message 'я' was pressed and
\* translate_message ran on 'я'
C32_Witness ==
  /\ handler.op = "translate_callback"
  /\ Len(handler.steps) = 3
  /\ handler.steps[2].fn = "translate_message"
  /\ handler.steps[2].arg.text = <<1103>>
  /\ Truthy(handler.steps[2].arg.ret)
  /\ ~sent[1].voice /\ sent[1].original = Str(<<1103>>)

\* C35: while a chat is stopped (its /stop succeeded and no /start or /mute
\* has been processed since) no handler calls translate_message for it
C35_StoppedChatNotTranslated ==
  (handler.op \in {"handle_message", "handle_voice", "translate_callback"}
     /\ handler.chat \in stopped)
    => "translate_message" \notin Called(handler)

\* C39: when the Translate button of a text placeholder is pressed and the
\* text is translated, the language translated into is the one the button
\* named when handle_message sent it
C39_ButtonNamesTarget ==
  handler.op = "translate_callback" =>
    \A i \in DOMAIN handler.steps :
      (/\ handler.steps[i].fn = "translate_message"
       /\ Truthy(handler.steps[i].arg.ret)
       /\ ~sent[handler.steps[1].arg[2]].voice)
        => handler.steps[i].arg.target = sent[handler.steps[1].arg[2]].target_lang

====
